---- MODULE Spec2Model ----
(***************************************************************************)
(* A model of the collaborative grocery list: the store (lists,            *)
(* categories, items, with the schema's constraints and the row level      *)
(* security policies), the API functions that talk to it (one step per     *)
(* awaited store call), the React state of each open ListDashboard and     *)
(* the realtime channel of useListSubscription.                            *)
(***************************************************************************)
EXTENDS Integers, Sequences, FiniteSets, TLC

(***************************************************************************)
(* Text.  A string is a sequence of one-character strings, so that trim,   *)
(* letter case and ILIKE are computed and not assumed.                     *)
(***************************************************************************)
UpperChars ==
  << "A", "B", "C", "D", "E", "F", "G", "H", "I", "J", "K", "L", "M",
     "N", "O", "P", "Q", "R", "S", "T", "U", "V", "W", "X", "Y", "Z" >>

LowerChars ==
  << "a", "b", "c", "d", "e", "f", "g", "h", "i", "j", "k", "l", "m",
     "n", "o", "p", "q", "r", "s", "t", "u", "v", "w", "x", "y", "z" >>

toLowerChar(ch) ==
  IF \E i \in 1..Len(UpperChars) : UpperChars[i] = ch
    THEN LowerChars[CHOOSE i \in 1..Len(UpperChars) : UpperChars[i] = ch]
    ELSE ch

toUpperChar(ch) ==
  IF \E i \in 1..Len(LowerChars) : LowerChars[i] = ch
    THEN UpperChars[CHOOSE i \in 1..Len(LowerChars) : LowerChars[i] = ch]
    ELSE ch

toLowerCase(s) == [i \in 1..Len(s) |-> toLowerChar(s[i])]

toUpperCase(s) == [i \in 1..Len(s) |-> toUpperChar(s[i])]

IsWhiteSpace(ch) == ch \in {" ", "\t"}

RECURSIVE trimStart(_)
trimStart(s) ==
  IF s # << >> /\ IsWhiteSpace(Head(s)) THEN trimStart(Tail(s)) ELSE s

RECURSIVE trimEnd(_)
trimEnd(s) ==
  IF s # << >> /\ IsWhiteSpace(s[Len(s)])
    THEN trimEnd(SubSeq(s, 1, Len(s) - 1))
    ELSE s

trim(s) == trimEnd(trimStart(s))

\* PostgreSQL's  s ILIKE p : % matches any run of characters, _ any one
\* character, every other character itself up to letter case.
RECURSIVE ilike(_, _)
ilike(s, p) ==
  IF p = << >> THEN s = << >>
  ELSE IF Head(p) = "%"
    THEN ilike(s, Tail(p)) \/ (s # << >> /\ ilike(Tail(s), p))
  ELSE IF s = << >> THEN FALSE
  ELSE IF Head(p) = "_" THEN ilike(Tail(s), Tail(p))
  ELSE toLowerChar(Head(s)) = toLowerChar(Head(p)) /\ ilike(Tail(s), Tail(p))

isValidItemName(name) == Len(trim(name)) > 0

\* a validation that looks at the length of the name as given
isNonEmptyName(name) == Len(name) > 0

isValidCategoryName(name) == Len(trim(name)) > 0

(***************************************************************************)
(* Bounds of the model.                                                    *)
(***************************************************************************)
\* API calls that may be in flight at once (and open views)
MaxCallers == 2
\* lists ever inserted
MaxLists == 2
\* custom categories ever inserted
MaxCustom == 2
\* items ever inserted
MaxItems == 2

Callers == 1..MaxCallers

(***************************************************************************)
(* Program constants.                                                      *)
(***************************************************************************)
maxRetries == 5

FirstCustomOrder == 100

CodeSuffixLen == 7

Altro == << "A", "l", "t", "r", "o" >>

\* a reassignment target that is not "Altro"
OtherReassignmentCategory == << "B" >>

DEFAULT_REASSIGNMENT_CATEGORY == Altro

DEFAULT_CATEGORIES ==
  << [name |-> << "F", "r", "u", "t", "t", "a", " ", "e", " ",
                  "V", "e", "r", "d", "u", "r", "a" >>, display_order |-> 1],
     [name |-> << "L", "a", "t", "t", "i", "c", "i", "n", "i" >>,
      display_order |-> 2],
     [name |-> << "C", "a", "r", "n", "e", " ", "e", " ",
                  "P", "e", "s", "c", "e" >>, display_order |-> 3],
     [name |-> << "P", "a", "n", "e", "t", "t", "e", "r", "i", "a" >>,
      display_order |-> 4],
     [name |-> << "P", "u", "l", "i", "z", "i", "a" >>, display_order |-> 5],
     [name |-> Altro, display_order |-> 6] >>

\* generateListCode: "GRO-" and 7 characters of A-Z0-9.  The draws of the
\* model are the codes whose 7 characters are one and the same character.
CodeChars == {"A", "7"}

ListCode(ch) == << "G", "R", "O", "-" >> \o [i \in 1..CodeSuffixLen |-> ch]

generateListCode == { ListCode(ch) : ch \in CodeChars }

(***************************************************************************)
(* State.                                                                  *)
(***************************************************************************)
VARIABLES
  lists,       \* table lists: rows [id, code, created_at]
  categories,  \* table categories: rows [id, list_id, name, is_default, display_order]
  items,       \* table items: rows [id, list_id, name, category, bought, created_at]
  nextId,      \* rows ever inserted into each table (the next id is one more)
  rls,         \* the store applies the row level security policies to the client
  codeWidth,   \* the n of lists.code VARCHAR(n) in the store
  call,        \* per caller: the API call in flight, its position and its locals
  channels,    \* realtime channels ever created: id -> [view, listId, status, queue]
  view,        \* per caller: the React state of its ListDashboard and of its hook
  calc         \* the pure function applied last: its arguments and its value

vars == << lists, categories, items, nextId, rls, codeWidth, call, channels, view,
          calc >>

NoId == 0

NoRow == [id |-> NoId]

NoText == << >>

IdleCall ==
  [ op |-> "idle", pc |-> "idle", listId |-> NoId, rowId |-> NoId,
    name |-> NoText, category |-> NoText, bought |-> FALSE,
    attempts |-> 0, inserts |-> 0, faulted |-> FALSE,
    row |-> NoRow, nextOrder |-> 0, result |-> "",
    code |-> NoText, lookups |-> 0,
    ui |-> "", snapshot |-> NoRow ]

NoData == [ready |-> FALSE, rows |-> << >>]

\* no ListDashboard is open
ClosedView ==
  [ mounted |-> FALSE, code |-> NoText, list |-> NoRow,
    items |-> << >>, categories |-> << >>, loading |-> FALSE, error |-> "",
    channelRef |-> NoId, load |-> "idle",
    itemsData |-> NoData, categoriesData |-> NoData ]

\* an Item of types: every field but bought is a string
NoItem ==
  [ id |-> NoText, list_id |-> NoText, name |-> NoText, category |-> NoText,
    bought |-> FALSE, created_at |-> NoText ]

\* no pure function has been applied
NoCalc ==
  [ fn |-> "", items |-> << >>, categories |-> << >>,
    groups |-> << >>, sorted |-> << >>,
    text |-> NoText, i |-> 0, generated |-> FALSE, valid |-> FALSE,
    item |-> NoItem, back |-> NoItem, backs |-> << >>, thrown |-> FALSE,
    payload |-> NoRow, calls |-> << >>, first |-> NoRow ]

(***************************************************************************)
(* The store: schema.sql and policies.sql.                                 *)
(***************************************************************************)
ListExists(listId) == \E l \in lists : l.id = listId

\* "Anyone can create lists": FOR INSERT WITH CHECK (true)
ListsInsertPolicy(row) == TRUE

\* lists has row level security enabled and no policy FOR DELETE: no row of
\* lists is visible to a DELETE, which then removes nothing and reports no error
ListsDeletePolicy(row) == FALSE

\* "Anyone can insert categories for existing lists"
CategoriesInsertPolicy(row) == ListExists(row.list_id) /\ row.is_default = FALSE

\* "Anyone can delete custom categories"
CategoriesDeletePolicy(row) == ListExists(row.list_id) /\ row.is_default = FALSE

\* "Anyone can insert/update/delete items for existing lists"
ItemsPolicy(row) == ListExists(row.list_id)

Permitted(policy) == ~rls \/ policy

\* lists.code VARCHAR(10) in schema.sql
CodeColumnWidth == 10

\* the width a store needs to hold a generated code, "GRO-" and the suffix
GeneratedCodeWidth == 4 + CodeSuffixLen

\* a value longer than the column is refused (22001), before any other check
CodeTooLong(code) == Len(code) > codeWidth

\* a code column without the UNIQUE constraint
NoCodeTaken(code) == FALSE

\* lists.code UNIQUE
ListCodeTaken(code) == \E l \in lists : l.code = code

\* categories UNIQUE(list_id, name): the names compared as they are stored
CategoryNameTaken(listId, name) ==
  \E c \in categories : c.list_id = listId /\ c.name = name

\* ON DELETE CASCADE of categories.list_id and items.list_id
CascadeCategories(gone) == { c \in categories : c.list_id \notin gone }

CascadeItems(gone) == { i \in items : i.list_id \notin gone }

(***************************************************************************)
(* The change feed: every row change is pushed, in commit order, to each   *)
(* joined channel whose filter list_id=eq.<listId> the row matches.        *)
(***************************************************************************)
RECURSIVE RowsById(_)
RowsById(rows) ==
  IF rows = {} THEN << >>
  ELSE LET first == CHOOSE r \in rows : \A q \in rows : r.id <= q.id
       IN << first >> \o RowsById(rows \ {first})

InsertEvent(table, row) ==
  [table |-> table, eventType |-> "INSERT", list_id |-> row.list_id,
   new |-> row, old |-> NoRow]

UpdateEvent(table, old, new) ==
  [table |-> table, eventType |-> "UPDATE", list_id |-> new.list_id,
   new |-> new, old |-> old]

DeleteEvent(table, row) ==
  [table |-> table, eventType |-> "DELETE", list_id |-> row.list_id,
   new |-> NoRow, old |-> row]

MatchesFilter(ch, ev) == ev.list_id = ch.listId

Broadcast(events) ==
  [id \in DOMAIN channels |->
     IF channels[id].status = "joined"
       THEN LET matching ==
                  SelectSeq(events, LAMBDA ev : MatchesFilter(channels[id], ev))
            IN [channels[id] EXCEPT !.queue = @ \o matching,
                                    !.received = @ + Len(matching)]
       ELSE channels[id]]

(***************************************************************************)
(* createList                                                              *)
(***************************************************************************)
DefaultCategoryRows(listId, firstId) ==
  { [ id |-> firstId + n, list_id |-> listId,
      name |-> DEFAULT_CATEGORIES[n].name, is_default |-> TRUE,
      display_order |-> DEFAULT_CATEGORIES[n].display_order ]
    : n \in 1..Len(DEFAULT_CATEGORIES) }

RetryOnAnyError(errorCode) == errorCode # ""

\* the error of the list insert that sends createList round the loop again
IsUniqueViolation(errorCode) == errorCode = "23505"

CreateList(k) ==
  /\ call[k].op = "idle"
  /\ nextId.lists < MaxLists
  /\ call' = [call EXCEPT ![k] =
       [IdleCall EXCEPT !.op = "createList", !.pc = "insertList"]]
  /\ UNCHANGED << lists, categories, items, nextId, rls, codeWidth, calc, view, channels >>

\* one turn of the loop: generateListCode, the insert into lists, and the
\* branch on its error
CreateListInsert(k, code, fail) ==
  LET c == call[k]
      errorCode == IF fail THEN "08006"
                   ELSE IF CodeTooLong(code) THEN "22001"
                   ELSE IF ListCodeTaken(code) THEN "23505"
                   ELSE IF ~Permitted(ListsInsertPolicy([code |-> code])) THEN "42501"
                   ELSE ""
      id == nextId.lists + 1
      list == [id |-> id, code |-> code, created_at |-> id]
      tried == [c EXCEPT !.inserts = @ + 1, !.faulted = @ \/ fail]
  IN
  /\ c.op = "createList" /\ c.pc = "insertList"
  /\ IF errorCode = ""
       THEN /\ lists' = lists \cup {list}
            /\ nextId' = [nextId EXCEPT !.lists = id]
            /\ call' = [call EXCEPT ![k] =
                 [tried EXCEPT !.pc = "insertDefaults", !.row = list]]
       ELSE /\ UNCHANGED << lists, nextId >>
            /\ call' = [call EXCEPT ![k] =
                 IF IsUniqueViolation(errorCode)
                   THEN IF c.attempts + 1 < maxRetries
                          THEN [tried EXCEPT !.attempts = @ + 1]
                          ELSE [tried EXCEPT !.attempts = @ + 1, !.pc = "done",
                                             !.result = "DATABASE_ERROR:code"]
                   ELSE [tried EXCEPT !.pc = "done",
                                      !.result = "DATABASE_ERROR:list"]]
  /\ UNCHANGED << categories, items, rls, codeWidth, calc, view, channels >>

\* the insert of the six default categories, one statement
CreateListDefaults(k, fail) ==
  LET c == call[k]
      rows == DefaultCategoryRows(c.row.id, nextId.categories)
      refused == \/ fail
                 \/ ~ListExists(c.row.id)
                 \/ \E r \in rows : ~Permitted(CategoriesInsertPolicy(r))
                 \/ \E r \in rows : CategoryNameTaken(r.list_id, r.name)
  IN
  /\ c.op = "createList" /\ c.pc = "insertDefaults"
  /\ IF refused
       THEN /\ UNCHANGED << categories, nextId >>
            /\ call' = [call EXCEPT ![k] =
                 [c EXCEPT !.pc = "rollback", !.faulted = @ \/ fail]]
       ELSE /\ categories' = categories \cup rows
            /\ nextId' = [nextId EXCEPT !.categories = @ + Len(DEFAULT_CATEGORIES)]
            /\ call' = [call EXCEPT ![k] = [c EXCEPT !.pc = "done", !.result = "ok"]]
  /\ channels' = IF refused THEN channels
                 ELSE Broadcast([n \in 1..Cardinality(rows) |->
                        InsertEvent("categories", RowsById(rows)[n])])
  /\ UNCHANGED << lists, items, rls, codeWidth, calc, view >>

\* "Rollback: delete the list if categories creation fails": the delete's
\* own outcome is not looked at
CreateListRollback(k, fail) ==
  LET c == call[k]
      gone == IF fail THEN {}
              ELSE { l.id : l \in { r \in lists :
                       r.id = c.row.id /\ Permitted(ListsDeletePolicy(r)) } }
  IN
  /\ c.op = "createList" /\ c.pc = "rollback"
  /\ lists' = { l \in lists : l.id \notin gone }
  /\ categories' = CascadeCategories(gone)
  /\ items' = CascadeItems(gone)
  /\ call' = [call EXCEPT ![k] =
       [c EXCEPT !.pc = "done", !.result = "DATABASE_ERROR:categories",
                 !.faulted = @ \/ fail]]
  /\ channels' = Broadcast(
       LET cs == RowsById({ r \in categories : r.list_id \in gone })
           is == RowsById({ r \in items : r.list_id \in gone })
       IN [n \in 1..Len(cs) |-> DeleteEvent("categories", cs[n])]
          \o [n \in 1..Len(is) |-> DeleteEvent("items", is[n])])
  /\ UNCHANGED << nextId, rls, codeWidth, calc, view >>

\* the caller takes the result (the value returned or the error thrown)
Return(k) ==
  /\ call[k].op # "idle" /\ call[k].pc = "done" /\ call[k].ui = ""
  /\ call' = [call EXCEPT ![k] = IdleCall]
  /\ UNCHANGED << lists, categories, items, nextId, rls, codeWidth, calc, view, channels >>

(***************************************************************************)
(* categoryNameExists and createCategory                                   *)
(***************************************************************************)
\* .eq('list_id', listId).ilike('name', name.trim()), data.length > 0
categoryNameExists(listId, name) ==
  \E c \in categories : c.list_id = listId /\ ilike(c.name, trim(name))

\* .eq('list_id', listId).order('display_order', desc).limit(1)
TopDisplayOrder(listId) ==
  { c.display_order : c \in { r \in categories :
      /\ r.list_id = listId
      /\ \A q \in categories : q.list_id = listId => q.display_order <= r.display_order } }

\* the call up to its first store call: the validation of the name
createCategory(listId, name) ==
  IF ~isValidCategoryName(name)
    THEN [IdleCall EXCEPT !.op = "createCategory", !.pc = "done",
            !.listId = listId, !.name = name, !.result = "INVALID_INPUT"]
    ELSE [IdleCall EXCEPT !.op = "createCategory", !.pc = "checkName",
            !.listId = listId, !.name = name]

CreateCategory(k, listId, name) ==
  /\ call[k].op = "idle"
  /\ call' = [call EXCEPT ![k] = createCategory(listId, name)]
  /\ UNCHANGED << lists, categories, items, nextId, rls, codeWidth, calc, view, channels >>

\* const exists = await categoryNameExists(listId, name)
CreateCategoryCheck(k, fail) ==
  LET c == call[k] IN
  /\ c.op = "createCategory" /\ c.pc = "checkName"
  /\ call' = [call EXCEPT ![k] =
       IF fail
         THEN [c EXCEPT !.pc = "done", !.result = "DATABASE_ERROR:check",
                        !.faulted = TRUE]
       ELSE IF categoryNameExists(c.listId, c.name)
         THEN [c EXCEPT !.pc = "done", !.result = "DUPLICATE_CATEGORY"]
       ELSE [c EXCEPT !.pc = "readOrder"]]
  /\ UNCHANGED << lists, categories, items, nextId, rls, codeWidth, calc, view, channels >>

\* the query of the highest display_order; its error is not looked at
\* the display_order of the row read, as it is
TopOrder(existingCategories) ==
  IF existingCategories # {}
    THEN CHOOSE d \in existingCategories : TRUE
    ELSE FirstCustomOrder

\* existingCategories && existingCategories.length > 0
\*   ? existingCategories[0].display_order + 1 : 100
NextOrder(existingCategories) ==
  IF existingCategories # {}
    THEN (CHOOSE d \in existingCategories : TRUE) + 1
    ELSE FirstCustomOrder

\* the read of the highest display_order, its error not looked at
CreateCategoryOrder(k, fail) ==
  LET c == call[k]
      existingCategories == IF fail THEN {} ELSE TopDisplayOrder(c.listId)
      nextOrder == NextOrder(existingCategories)
  IN
  /\ c.op = "createCategory" /\ c.pc = "readOrder"
  /\ call' = [call EXCEPT ![k] =
       [c EXCEPT !.pc = "insert", !.nextOrder = nextOrder, !.faulted = @ \/ fail]]
  /\ UNCHANGED << lists, categories, items, nextId, rls, codeWidth, calc, view, channels >>

CreateCategoryInsert(k, fail) ==
  LET c == call[k]
      row == [ id |-> nextId.categories + 1, list_id |-> c.listId,
               name |-> trim(c.name), is_default |-> FALSE,
               display_order |-> c.nextOrder ]
      refused == \/ fail
                 \/ ~ListExists(c.listId)
                 \/ ~Permitted(CategoriesInsertPolicy(row))
                 \/ CategoryNameTaken(row.list_id, row.name)
  IN
  /\ c.op = "createCategory" /\ c.pc = "insert"
  /\ IF refused
       THEN /\ UNCHANGED << categories, nextId, channels >>
            /\ call' = [call EXCEPT ![k] =
                 [c EXCEPT !.pc = "done", !.result = "DATABASE_ERROR:insert",
                           !.faulted = @ \/ fail]]
       ELSE /\ categories' = categories \cup {row}
            /\ nextId' = [nextId EXCEPT !.categories = @ + 1]
            /\ channels' = Broadcast(<< InsertEvent("categories", row) >>)
            /\ call' = [call EXCEPT ![k] =
                 [c EXCEPT !.pc = "done", !.result = "ok", !.row = row]]
  /\ UNCHANGED << lists, items, rls, codeWidth, calc, view >>

(***************************************************************************)
(* deleteCategory                                                          *)
(***************************************************************************)
\* a check that takes no category for a default one
NoCategoryIsDefault(category) == FALSE

\* if (category.is_default) throw INVALID_INPUT
IsDefaultCategory(category) == category.is_default

deleteCategory(categoryId, listId) ==
  [IdleCall EXCEPT !.op = "deleteCategory", !.pc = "fetch",
                   !.rowId = categoryId, !.listId = listId]

DeleteCategory(k, categoryId, listId) ==
  /\ call[k].op = "idle"
  /\ call' = [call EXCEPT ![k] = deleteCategory(categoryId, listId)]
  /\ UNCHANGED << lists, categories, items, nextId, rls, codeWidth, calc, view, channels >>

\* .select().eq('id', categoryId).single(), then the is_default check
DeleteCategoryFetch(k, fail) ==
  LET c == call[k]
      found == { r \in categories : r.id = c.rowId }
  IN
  /\ c.op = "deleteCategory" /\ c.pc = "fetch"
  /\ call' = [call EXCEPT ![k] =
       IF fail \/ found = {}
         THEN [c EXCEPT !.pc = "done", !.result = "DATABASE_ERROR:fetch",
                        !.faulted = @ \/ fail]
       ELSE LET category == CHOOSE r \in found : TRUE IN
            IF IsDefaultCategory(category)
              THEN [c EXCEPT !.pc = "done", !.result = "INVALID_INPUT",
                             !.row = category]
              ELSE [c EXCEPT !.pc = "reassign", !.row = category]]
  /\ UNCHANGED << lists, categories, items, nextId, rls, codeWidth, calc, view, channels >>

\* the reassignment whose updateError is not looked at
DeleteCategoryReassignUnchecked(k, fail) ==
  LET c == call[k]
      hit == IF fail THEN {}
             ELSE { i \in items : /\ i.list_id = c.listId
                                  /\ i.category = c.row.name
                                  /\ Permitted(ItemsPolicy(i)) }
      Moved(i) == [i EXCEPT !.category = DEFAULT_REASSIGNMENT_CATEGORY]
      ordered == RowsById(hit)
  IN
  /\ c.op = "deleteCategory" /\ c.pc = "reassign"
  /\ items' = (items \ hit) \cup { Moved(i) : i \in hit }
  /\ channels' = Broadcast([n \in 1..Len(ordered) |->
                    UpdateEvent("items", ordered[n], Moved(ordered[n]))])
  /\ call' = [call EXCEPT ![k] = [c EXCEPT !.pc = "delete", !.faulted = @ \/ fail]]
  /\ UNCHANGED << lists, categories, nextId, rls, codeWidth, calc, view >>

\* .update({ category: 'Altro' }).eq('list_id', listId).eq('category', category.name)
DeleteCategoryReassign(k, fail) ==
  LET c == call[k]
      hit == IF fail THEN {}
             ELSE { i \in items : /\ i.list_id = c.listId
                                  /\ i.category = c.row.name
                                  /\ Permitted(ItemsPolicy(i)) }
      Moved(i) == [i EXCEPT !.category = DEFAULT_REASSIGNMENT_CATEGORY]
      ordered == RowsById(hit)
  IN
  /\ c.op = "deleteCategory" /\ c.pc = "reassign"
  /\ items' = (items \ hit) \cup { Moved(i) : i \in hit }
  /\ channels' = Broadcast([n \in 1..Len(ordered) |->
                    UpdateEvent("items", ordered[n], Moved(ordered[n]))])
  /\ call' = [call EXCEPT ![k] =
       IF fail
         THEN [c EXCEPT !.pc = "done", !.result = "DATABASE_ERROR:reassign",
                        !.faulted = TRUE]
         ELSE [c EXCEPT !.pc = "delete"]]
  /\ UNCHANGED << lists, categories, nextId, rls, codeWidth, calc, view >>

\* .delete().eq('id', categoryId)
DeleteCategoryDelete(k, fail) ==
  LET c == call[k]
      gone == IF fail THEN {}
              ELSE { r \in categories :
                       r.id = c.rowId /\ Permitted(CategoriesDeletePolicy(r)) }
      ordered == RowsById(gone)
  IN
  /\ c.op = "deleteCategory" /\ c.pc = "delete"
  /\ categories' = categories \ gone
  /\ channels' = Broadcast([n \in 1..Len(ordered) |->
                    DeleteEvent("categories", ordered[n])])
  /\ call' = [call EXCEPT ![k] =
       IF fail
         THEN [c EXCEPT !.pc = "done", !.result = "DATABASE_ERROR:delete",
                        !.faulted = TRUE]
         ELSE [c EXCEPT !.pc = "done", !.result = "ok"]]
  /\ UNCHANGED << lists, items, nextId, rls, codeWidth, calc, view >>

(***************************************************************************)
(* addItem, updateItemBought, deleteItem                                   *)
(***************************************************************************)
\* the call up to its first store call: the validation of name and category
addItem(listId, name, category) ==
  IF ~isValidItemName(name) \/ category = << >> \/ Len(trim(category)) = 0
    THEN [IdleCall EXCEPT !.op = "addItem", !.pc = "done",
            !.listId = listId, !.name = name, !.category = category,
            !.result = "INVALID_INPUT"]
    ELSE [IdleCall EXCEPT !.op = "addItem", !.pc = "insert",
            !.listId = listId, !.name = name, !.category = category]

AddItem(k, listId, name, category) ==
  /\ call[k].op = "idle"
  /\ call' = [call EXCEPT ![k] = addItem(listId, name, category)]
  /\ UNCHANGED << lists, categories, items, nextId, rls, codeWidth, calc, view, channels >>

\* an insert that trims the category as it trims the name
NewItemTrimmingCategory(id, listId, name, category) ==
  [ id |-> id, list_id |-> listId, name |-> trim(name),
    category |-> trim(category), bought |-> FALSE, created_at |-> id ]

\* .insert({ list_id: listId, name: name.trim(), category, bought: false })
NewItem(id, listId, name, category) ==
  [ id |-> id, list_id |-> listId, name |-> trim(name),
    category |-> category, bought |-> FALSE, created_at |-> id ]

AddItemInsert(k, fail) ==
  LET c == call[k]
      id == nextId.items + 1
      row == NewItem(id, c.listId, c.name, c.category)
      refused == fail \/ ~ListExists(c.listId) \/ ~Permitted(ItemsPolicy(row))
  IN
  /\ c.op = "addItem" /\ c.pc = "insert"
  /\ IF refused
       THEN /\ UNCHANGED << items, nextId, channels >>
            /\ call' = [call EXCEPT ![k] =
                 [c EXCEPT !.pc = "done", !.result = "DATABASE_ERROR:insert",
                           !.faulted = @ \/ fail]]
       ELSE /\ items' = items \cup {row}
            /\ nextId' = [nextId EXCEPT !.items = id]
            /\ channels' = Broadcast(<< InsertEvent("items", row) >>)
            /\ call' = [call EXCEPT ![k] =
                 [c EXCEPT !.pc = "done", !.result = "ok", !.row = row]]
  /\ UNCHANGED << lists, categories, rls, codeWidth, calc, view >>

updateItemBought(itemId, bought) ==
  [IdleCall EXCEPT !.op = "updateItemBought", !.pc = "update",
                   !.rowId = itemId, !.bought = bought]

UpdateItemBought(k, itemId, bought) ==
  /\ call[k].op = "idle"
  /\ call' = [call EXCEPT ![k] = updateItemBought(itemId, bought)]
  /\ UNCHANGED << lists, categories, items, nextId, rls, codeWidth, calc, view, channels >>

\* a statement that has no filter on the id
EqAnyId(row, id) == TRUE

\* .eq('id', itemId)
EqId(row, id) == row.id = id

\* an update that inverts the stored value, whatever the caller passes
FlipBought(i, bought) == [i EXCEPT !.bought = ~i.bought]

\* the row after .update({ bought })
SetBought(i, bought) == [i EXCEPT !.bought = bought]

\* .update({ bought }).eq('id', itemId)
UpdateItemBoughtStore(k, fail) ==
  LET c == call[k]
      hit == IF fail THEN {}
             ELSE { i \in items : EqId(i, c.rowId) /\ Permitted(ItemsPolicy(i)) }
      Set(i) == SetBought(i, c.bought)
      ordered == RowsById(hit)
  IN
  /\ c.op = "updateItemBought" /\ c.pc = "update"
  /\ items' = (items \ hit) \cup { Set(i) : i \in hit }
  /\ channels' = Broadcast([n \in 1..Len(ordered) |->
                    UpdateEvent("items", ordered[n], Set(ordered[n]))])
  /\ call' = [call EXCEPT ![k] =
       IF fail
         THEN [c EXCEPT !.pc = "done", !.result = "DATABASE_ERROR:update",
                        !.faulted = TRUE]
         ELSE [c EXCEPT !.pc = "done", !.result = "ok"]]
  /\ UNCHANGED << lists, categories, nextId, rls, codeWidth, calc, view >>

deleteItem(itemId) ==
  [IdleCall EXCEPT !.op = "deleteItem", !.pc = "delete", !.rowId = itemId]

DeleteItem(k, itemId) ==
  /\ call[k].op = "idle"
  /\ call' = [call EXCEPT ![k] = deleteItem(itemId)]
  /\ UNCHANGED << lists, categories, items, nextId, rls, codeWidth, calc, view, channels >>

\* a deleteItem that takes a delete of no row for an error
DeleteOfNoRowIsError(error, gone) ==
  IF error \/ gone = {} THEN "DATABASE_ERROR:delete" ELSE "ok"

\* if (error) throw DATABASE_ERROR: the rows deleted are not looked at
DeleteItemResult(error, gone) ==
  IF error THEN "DATABASE_ERROR:delete" ELSE "ok"

\* .delete().eq('id', itemId)
DeleteItemStore(k, fail) ==
  LET c == call[k]
      gone == IF fail THEN {}
              ELSE { i \in items : EqId(i, c.rowId) /\ Permitted(ItemsPolicy(i)) }
      ordered == RowsById(gone)
  IN
  /\ c.op = "deleteItem" /\ c.pc = "delete"
  /\ items' = items \ gone
  /\ channels' = Broadcast([n \in 1..Len(ordered) |->
                    DeleteEvent("items", ordered[n])])
  /\ call' = [call EXCEPT ![k] =
       [c EXCEPT !.pc = "done", !.result = DeleteItemResult(fail, gone),
                 !.faulted = fail]]
  /\ UNCHANGED << lists, categories, nextId, rls, codeWidth, calc, view >>

(***************************************************************************)
(* getListByCode, getItems, getCategories                                  *)
(***************************************************************************)
Digits == { "0", "1", "2", "3", "4", "5", "6", "7", "8", "9" }

\* /^GRO-[A-Z0-9]{7}/: the pattern without its end anchor
isListCodePrefix(code) ==
  /\ Len(code) >= 4 + CodeSuffixLen
  /\ SubSeq(code, 1, 4) = << "G", "R", "O", "-" >>
  /\ \A i \in 5..(4 + CodeSuffixLen) :
       \/ code[i] \in Digits
       \/ \E j \in 1..Len(UpperChars) : UpperChars[j] = code[i]

\* /^GRO-[A-Z0-9]{7}$/
isValidListCodeFormat(code) ==
  /\ Len(code) = 4 + CodeSuffixLen
  /\ SubSeq(code, 1, 4) = << "G", "R", "O", "-" >>
  /\ \A i \in 5..Len(code) :
       \/ code[i] \in Digits
       \/ \E j \in 1..Len(UpperChars) : UpperChars[j] = code[i]

\* the rows the lookup of getListByCode matches (none for a malformed code)
getListByCode(code) ==
  IF ~isValidListCodeFormat(code) THEN {}
  ELSE { l \in lists : l.code = toUpperCase(code) }

\* a reading of errors that takes every error for "no rows returned"
AnyErrorIsNoRows(errorCode) == TRUE

\* if (error.code === 'PGRST116') return null
IsNoRowsError(errorCode) == errorCode = "PGRST116"

\* the call up to its store lookup: a malformed code returns null at once
GetListByCode(k, code) ==
  /\ call[k].op = "idle"
  /\ call' = [call EXCEPT ![k] =
       IF ~isValidListCodeFormat(code)
         THEN [IdleCall EXCEPT !.op = "getListByCode", !.pc = "done",
                               !.code = code, !.result = "null"]
         ELSE [IdleCall EXCEPT !.op = "getListByCode", !.pc = "lookup",
                               !.code = code]]
  /\ UNCHANGED << lists, categories, items, nextId, rls, codeWidth, calc, view, channels >>

\* .from('lists').select().eq('code', code.toUpperCase()).single()
GetListByCodeLookup(k, fail) ==
  LET c == call[k]
      found == { l \in lists : l.code = toUpperCase(c.code) }
      errorCode == IF fail THEN "08006"
                   ELSE IF Cardinality(found) # 1 THEN "PGRST116"
                   ELSE ""
      looked == [c EXCEPT !.pc = "done", !.lookups = @ + 1,
                          !.faulted = @ \/ fail]
  IN
  /\ c.op = "getListByCode" /\ c.pc = "lookup"
  /\ call' = [call EXCEPT ![k] =
       IF errorCode = ""
         THEN [looked EXCEPT !.result = "ok",
                             !.row = CHOOSE l \in found : TRUE]
       ELSE IF IsNoRowsError(errorCode)
         THEN [looked EXCEPT !.result = "null"]
       ELSE [looked EXCEPT !.result = "DATABASE_ERROR"]]
  /\ UNCHANGED << lists, categories, items, nextId, rls, codeWidth, calc, view, channels >>

\* .eq('list_id', listId).order('created_at', ascending)
RECURSIVE OrderBy(_, _)
OrderBy(rows, column) ==
  IF rows = {} THEN << >>
  ELSE LET first == CHOOSE r \in rows : \A q \in rows :
                      \/ r[column] < q[column]
                      \/ (r[column] = q[column] /\ r.id <= q.id)
       IN << first >> \o OrderBy(rows \ {first}, column)

getItems(listId) ==
  OrderBy({ i \in items : i.list_id = listId }, "created_at")

\* .eq('list_id', listId).order('display_order', ascending)
getCategories(listId) ==
  OrderBy({ c \in categories : c.list_id = listId }, "display_order")

(***************************************************************************)
(* useListSubscription                                                     *)
(***************************************************************************)
\* channels ever created
MaxChannels == 3

\* supabase.channel(`list-${listId}`).on(...).on(...).subscribe()
NewChannel(v, listId) ==
  [view |-> v, listId |-> listId, status |-> "joining", queue |-> << >>,
   received |-> 0, removed |-> 0]

\* supabase.removeChannel(channel): the channel leaves and nothing queued
\* for it is handed to its callbacks any more
removeChannel(chs, id) ==
  [chs EXCEPT ![id] = [@ EXCEPT !.status = "removed", !.queue = << >>,
                                !.removed = @ + 1]]

\* a cleanup that only forgets the channel, without removing it
ForgetChannels(chs, ref) == chs

\* the effect's cleanup: if (channelRef.current) { removeChannel; null }
CleanupChannels(chs, ref) == IF ref # NoId THEN removeChannel(chs, ref) ELSE chs

\* the effect on a render with listId: the cleanup of the effect that ran
\* with oldListId (it has one only if it subscribed), then the new effect
SubscriptionEffect(chs, ref, v, oldListId, listId) ==
  IF listId = oldListId THEN [channels |-> chs, channelRef |-> ref]
  ELSE LET cleaned == IF oldListId # NoId THEN CleanupChannels(chs, ref) ELSE chs
           ref1 == IF oldListId # NoId THEN NoId ELSE ref
       IN IF listId = NoId
            THEN [channels |-> cleaned, channelRef |-> ref1]
            ELSE [channels |-> Append(cleaned, NewChannel(v, listId)),
                  channelRef |-> Len(cleaned) + 1]

\* the unmount: the current effect's cleanup
SubscriptionUnmount(chs, ref, listId) ==
  IF listId # NoId THEN CleanupChannels(chs, ref) ELSE chs

\* an unsubscribe that removes the channel and keeps holding it
UnsubscribeKeepingRef(chs, ref) ==
  [channels |-> CleanupChannels(chs, ref), channelRef |-> ref]

\* the function the hook returns:
\* if (channelRef.current) { removeChannel(channelRef.current); null }
unsubscribe(chs, ref) ==
  [channels |-> CleanupChannels(chs, ref), channelRef |-> NoId]

\* a component renders the hook with the list l (NoRow: listId null): the
\* first render mounts it, a later one with another listId re-runs the effect
Render(v, l) ==
  LET vw == view[v]
      oldListId == IF vw.mounted THEN vw.list.id ELSE NoId
      effect == SubscriptionEffect(channels, vw.channelRef, v, oldListId, l.id)
  IN
  /\ ~vw.mounted \/ vw.list.id # l.id
  /\ Len(channels) < MaxChannels
  /\ channels' = effect.channels
  /\ view' = [view EXCEPT ![v] =
       [vw EXCEPT !.mounted = TRUE, !.list = l,
                  !.channelRef = effect.channelRef]]
  /\ UNCHANGED << lists, categories, items, nextId, rls, codeWidth, calc, call >>

\* the component calls the unsubscribe function the hook returned
Unsubscribe(v) ==
  LET after == unsubscribe(channels, view[v].channelRef) IN
  /\ view[v].mounted
  /\ channels' = after.channels
  /\ view' = [view EXCEPT ![v].channelRef = after.channelRef]
  /\ UNCHANGED << lists, categories, items, nextId, rls, codeWidth, calc, call >>

(***************************************************************************)
(* ListDashboard: the merges of realtimeCallbacks and of the handlers      *)
(***************************************************************************)
HasId(rows, id) == \E n \in 1..Len(rows) : rows[n].id = id

ReplaceById(rows, row) ==
  [n \in 1..Len(rows) |-> IF rows[n].id = row.id THEN row ELSE rows[n]]

RemoveById(rows, id) == SelectSeq(rows, LAMBDA r : r.id # id)

\* every item goes to 'Altro'
ReassignAll(rows, name) ==
  [n \in 1..Len(rows) |-> [rows[n] EXCEPT !.category = Altro]]

\* items whose category is name go to 'Altro'
Reassign(rows, name) ==
  [n \in 1..Len(rows) |->
     IF rows[n].category = name
       THEN [rows[n] EXCEPT !.category = Altro]
       ELSE rows[n]]

\* adds the item whether or not an item of its id is there
onItemAppend(vw, item) == [vw EXCEPT !.items = Append(@, item)]

onItemInsert(vw, item) ==
  IF HasId(vw.items, item.id) THEN vw
  ELSE [vw EXCEPT !.items = Append(@, item)]

\* replaces the item of that id, and adds the item when there is none
onItemUpsert(vw, item) ==
  IF HasId(vw.items, item.id) THEN [vw EXCEPT !.items = ReplaceById(@, item)]
  ELSE [vw EXCEPT !.items = Append(@, item)]

onItemUpdate(vw, item) == [vw EXCEPT !.items = ReplaceById(@, item)]

onItemDelete(vw, oldItem) == [vw EXCEPT !.items = RemoveById(@, oldItem.id)]

onCategoryInsert(vw, category) ==
  IF HasId(vw.categories, category.id) THEN vw
  ELSE [vw EXCEPT !.categories = Append(@, category)]

onCategoryUpdate(vw, category) ==
  [vw EXCEPT !.categories = ReplaceById(@, category)]

onCategoryDelete(vw, oldCategory) ==
  [vw EXCEPT !.items = Reassign(@, oldCategory.name),
             !.categories = RemoveById(@, oldCategory.id)]

handleItemAdded(vw, newItem) == [vw EXCEPT !.items = Append(@, newItem)]

handleItemUpdated(vw, updatedItem) ==
  [vw EXCEPT !.items = ReplaceById(@, updatedItem)]

handleItemDeleted(vw, itemId) == [vw EXCEPT !.items = RemoveById(@, itemId)]

handleCategoryCreated(vw, newCategory) ==
  [vw EXCEPT !.categories = Append(@, newCategory)]

\* removes the category and leaves the items as they are
handleCategoryRemoved(vw, renderCategories, categoryId) ==
  [vw EXCEPT !.categories = RemoveById(@, categoryId)]

\* renderCategories: the categories of the render whose handler was passed
\* to CategoryManager when the deletion was asked for
handleCategoryDeleted(vw, renderCategories, categoryId) ==
  LET found == { n \in 1..Len(renderCategories) :
                   renderCategories[n].id = categoryId }
      reassigned ==
        IF found = {} THEN vw.items
        ELSE Reassign(vw.items,
               renderCategories[CHOOSE n \in found : \A m \in found : n <= m].name)
  IN [vw EXCEPT !.items = reassigned,
                !.categories = RemoveById(@, categoryId)]

\* one callback of callbacksRef.current called with a row
Called(callback, row) == [callback |-> callback, row |-> row]

\* the switch of handleItemChange without its break statements
handleItemChangeFallingThrough(payload) ==
  (IF payload.eventType = "INSERT" /\ payload.new # NoRow
     THEN << Called("onItemInsert", payload.new) >> ELSE << >>)
  \o (IF payload.eventType \in { "INSERT", "UPDATE" } /\ payload.new # NoRow
        THEN << Called("onItemUpdate", payload.new) >> ELSE << >>)
  \o (IF payload.old # NoRow
        THEN << Called("onItemDelete", payload.old) >> ELSE << >>)

\* handleItemChange: the callbacks the switch on eventType calls for a
\* payload of the table items, with the record each is given
handleItemChange(payload) ==
  CASE payload.eventType = "INSERT" /\ payload.new # NoRow ->
         << Called("onItemInsert", payload.new) >>
    [] payload.eventType = "UPDATE" /\ payload.new # NoRow ->
         << Called("onItemUpdate", payload.new) >>
    [] payload.eventType = "DELETE" /\ payload.old # NoRow ->
         << Called("onItemDelete", payload.old) >>
    [] OTHER -> << >>

\* handleCategoryChange: the same switch for the table categories
handleCategoryChange(payload) ==
  CASE payload.eventType = "INSERT" /\ payload.new # NoRow ->
         << Called("onCategoryInsert", payload.new) >>
    [] payload.eventType = "UPDATE" /\ payload.new # NoRow ->
         << Called("onCategoryUpdate", payload.new) >>
    [] payload.eventType = "DELETE" /\ payload.old # NoRow ->
         << Called("onCategoryDelete", payload.old) >>
    [] OTHER -> << >>

\* the handler the channel registered for the payload's table with .on()
Handled(payload) ==
  IF payload.table = "items" THEN handleItemChange(payload)
  ELSE handleCategoryChange(payload)

\* realtimeCallbacks[callback](row) on the state of the dashboard
Callback(vw, c) ==
  CASE c.callback = "onItemInsert" -> onItemInsert(vw, c.row)
    [] c.callback = "onItemUpdate" -> onItemUpdate(vw, c.row)
    [] c.callback = "onItemDelete" -> onItemDelete(vw, c.row)
    [] c.callback = "onCategoryInsert" -> onCategoryInsert(vw, c.row)
    [] c.callback = "onCategoryUpdate" -> onCategoryUpdate(vw, c.row)
    [] c.callback = "onCategoryDelete" -> onCategoryDelete(vw, c.row)

RECURSIVE Callbacks(_, _)
Callbacks(vw, calls) ==
  IF calls = << >> THEN vw
  ELSE Callbacks(Callback(vw, Head(calls)), Tail(calls))

\* a payload of the channel: its handler, and the callbacks the handler calls
handleChange(vw, payload) == Callbacks(vw, Handled(payload))

(***************************************************************************)
(* ListDashboard: loading, the channel, the feed                           *)
(***************************************************************************)
\* the page opens on /list/<code>: the initial state, then loadListData
Mount(v, code) ==
  /\ ~view[v].mounted /\ call[v].op = "idle"
  /\ Len(channels) < MaxChannels
  /\ view' = [view EXCEPT ![v] =
       [ClosedView EXCEPT !.mounted = TRUE, !.code = code, !.loading = TRUE,
                          !.load = "getList"]]
  /\ UNCHANGED << lists, categories, items, nextId, rls, codeWidth, calc, call, channels >>

\* the route's code changes: loadListData runs again (one load at a time)
Navigate(v, code) ==
  /\ view[v].mounted /\ view[v].load = "idle" /\ view[v].code # code
  /\ Len(channels) < MaxChannels
  /\ view' = [view EXCEPT ![v] =
       [@ EXCEPT !.code = code, !.loading = TRUE, !.error = "",
                 !.load = "getList"]]
  /\ UNCHANGED << lists, categories, items, nextId, rls, codeWidth, calc, call, channels >>

\* the error screen's retry button: loadListData again
Retry(v) ==
  /\ view[v].mounted /\ view[v].load = "idle" /\ ~view[v].loading
  /\ (view[v].error # "" \/ view[v].list = NoRow)
  /\ view' = [view EXCEPT ![v] =
       [@ EXCEPT !.loading = TRUE, !.error = "", !.load = "getList"]]
  /\ UNCHANGED << lists, categories, items, nextId, rls, codeWidth, calc, call, channels >>

\* await getListByCode(code), setList(listData), and the render's effect
LoadGetList(v, fail) ==
  LET vw == view[v]
      found == getListByCode(vw.code)
      failed == fail /\ isValidListCodeFormat(vw.code)
  IN
  /\ vw.mounted /\ vw.load = "getList"
  /\ IF failed \/ found = {}
       THEN /\ view' = [view EXCEPT ![v] =
                 [vw EXCEPT !.error = IF failed THEN "NETWORK_ERROR"
                                      ELSE "LIST_NOT_FOUND",
                            !.loading = FALSE, !.load = "idle"]]
            /\ UNCHANGED channels
       ELSE LET listData == CHOOSE l \in found : TRUE
                effect == SubscriptionEffect(channels, vw.channelRef, v,
                                             vw.list.id, listData.id)
            IN /\ channels' = effect.channels
               /\ view' = [view EXCEPT ![v] =
                    [vw EXCEPT !.list = listData, !.load = "fetch",
                               !.channelRef = effect.channelRef,
                               !.itemsData = NoData, !.categoriesData = NoData]]
  /\ UNCHANGED << lists, categories, items, nextId, rls, codeWidth, calc, call >>

\* getItems(listData.id) of the Promise.all
LoadGetItems(v, fail) ==
  LET vw == view[v] IN
  /\ vw.mounted /\ vw.load = "fetch" /\ ~vw.itemsData.ready
  /\ view' = [view EXCEPT ![v] =
       IF fail
         THEN [vw EXCEPT !.error = "NETWORK_ERROR", !.loading = FALSE,
                         !.load = "idle"]
         ELSE [vw EXCEPT !.itemsData =
                 [ready |-> TRUE, rows |-> getItems(vw.list.id)]]]
  /\ UNCHANGED << lists, categories, items, nextId, rls, codeWidth, calc, call, channels >>

\* getCategories(listData.id) of the Promise.all
LoadGetCategories(v, fail) ==
  LET vw == view[v] IN
  /\ vw.mounted /\ vw.load = "fetch" /\ ~vw.categoriesData.ready
  /\ view' = [view EXCEPT ![v] =
       IF fail
         THEN [vw EXCEPT !.error = "NETWORK_ERROR", !.loading = FALSE,
                         !.load = "idle"]
         ELSE [vw EXCEPT !.categoriesData =
                 [ready |-> TRUE, rows |-> getCategories(vw.list.id)]]]
  /\ UNCHANGED << lists, categories, items, nextId, rls, codeWidth, calc, call, channels >>

\* both resolved: setItems(itemsData), setCategories(categoriesData)
LoadFinish(v) ==
  LET vw == view[v] IN
  /\ vw.mounted /\ vw.load = "fetch"
  /\ vw.itemsData.ready /\ vw.categoriesData.ready
  /\ view' = [view EXCEPT ![v] =
       [vw EXCEPT !.items = vw.itemsData.rows,
                  !.categories = vw.categoriesData.rows,
                  !.loading = FALSE, !.load = "idle",
                  !.itemsData = NoData, !.categoriesData = NoData]]
  /\ UNCHANGED << lists, categories, items, nextId, rls, codeWidth, calc, call, channels >>

\* the page closes: the effect's cleanup; the state is gone
Unmount(v) ==
  /\ view[v].mounted
  /\ channels' = SubscriptionUnmount(channels, view[v].channelRef, view[v].list.id)
  /\ view' = [view EXCEPT ![v] = ClosedView]
  /\ UNCHANGED << lists, categories, items, nextId, rls, codeWidth, calc, call >>

\* the server confirms the channel's join
ChannelJoined(id) ==
  /\ id \in DOMAIN channels /\ channels[id].status = "joining"
  /\ channels' = [channels EXCEPT ![id].status = "joined"]
  /\ UNCHANGED << lists, categories, items, nextId, rls, codeWidth, calc, call, view >>

\* the channel hands its next payload to the hook's handler
Deliver(id) ==
  /\ id \in DOMAIN channels /\ channels[id].status = "joined"
  /\ channels[id].queue # << >>
  /\ channels' = [channels EXCEPT ![id].queue = Tail(@)]
  /\ view' = [view EXCEPT ![channels[id].view] =
       handleChange(@, Head(channels[id].queue))]
  /\ UNCHANGED << lists, categories, items, nextId, rls, codeWidth, calc, call >>

(***************************************************************************)
(* ListDashboard: what the user does, one store call in flight per view    *)
(***************************************************************************)
\* the list is on screen
Displayed(v) ==
  /\ view[v].mounted /\ ~view[v].loading /\ view[v].error = ""
  /\ view[v].list # NoRow

\* the item is shown (in the group of a local category of its name)
Shown(v, n) ==
  /\ n \in 1..Len(view[v].items)
  /\ \E m \in 1..Len(view[v].categories) :
       view[v].categories[m].name = view[v].items[n].category

\* AddItemForm.handleSubmit: the category is one of the selector's options
SubmitItem(v, name, m) ==
  /\ Displayed(v) /\ call[v].op = "idle"
  /\ m \in 1..Len(view[v].categories)
  /\ isValidItemName(name)
  /\ call' = [call EXCEPT ![v] =
       [addItem(view[v].list.id, trim(name), view[v].categories[m].name)
          EXCEPT !.ui = "AddItemForm"]]
  /\ UNCHANGED << lists, categories, items, nextId, rls, codeWidth, calc, channels, view >>

\* GroceryItem.handleToggleBought on the n-th local item
ToggleBought(v, n) ==
  /\ Displayed(v) /\ call[v].op = "idle" /\ Shown(v, n)
  /\ call' = [call EXCEPT ![v] =
       [updateItemBought(view[v].items[n].id, ~view[v].items[n].bought)
          EXCEPT !.ui = "GroceryItem.toggle", !.snapshot = view[v].items[n]]]
  /\ UNCHANGED << lists, categories, items, nextId, rls, codeWidth, calc, channels, view >>

\* GroceryItem.handleDelete on the n-th local item
ClickDeleteItem(v, n) ==
  /\ Displayed(v) /\ call[v].op = "idle" /\ Shown(v, n)
  /\ call' = [call EXCEPT ![v] =
       [deleteItem(view[v].items[n].id)
          EXCEPT !.ui = "GroceryItem.delete", !.snapshot = view[v].items[n]]]
  /\ UNCHANGED << lists, categories, items, nextId, rls, codeWidth, calc, channels, view >>

\* CategoryManager.handleCreateCategory
SubmitCategory(v, name) ==
  /\ Displayed(v) /\ call[v].op = "idle"
  /\ isValidCategoryName(name)
  /\ ~\E m \in 1..Len(view[v].categories) :
        toLowerCase(view[v].categories[m].name) = toLowerCase(trim(name))
  /\ call' = [call EXCEPT ![v] =
       [createCategory(view[v].list.id, trim(name))
          EXCEPT !.ui = "CategoryManager.create"]]
  /\ UNCHANGED << lists, categories, items, nextId, rls, codeWidth, calc, channels, view >>

\* CategoryManager.handleDeleteCategory on the m-th local category, a custom one
ClickDeleteCategory(v, m) ==
  /\ Displayed(v) /\ call[v].op = "idle"
  /\ m \in 1..Len(view[v].categories)
  /\ ~view[v].categories[m].is_default
  /\ call' = [call EXCEPT ![v] =
       [deleteCategory(view[v].categories[m].id, view[v].list.id)
          EXCEPT !.ui = "CategoryManager.delete",
                 !.snapshot = [id |-> NoId, categories |-> view[v].categories]]]
  /\ UNCHANGED << lists, categories, items, nextId, rls, codeWidth, calc, channels, view >>

\* the awaited call settles: on success the handler the component was given
\* runs; on an error only the component's own message changes
Respond(v) ==
  LET c == call[v]
      vw == view[v]
      after ==
        IF ~vw.mounted \/ c.result # "ok" THEN vw
        ELSE CASE c.ui = "AddItemForm" -> handleItemAdded(vw, c.row)
               [] c.ui = "GroceryItem.toggle" ->
                    handleItemUpdated(vw, [c.snapshot EXCEPT !.bought = c.bought])
               [] c.ui = "GroceryItem.delete" -> handleItemDeleted(vw, c.snapshot.id)
               [] c.ui = "CategoryManager.create" -> handleCategoryCreated(vw, c.row)
               [] c.ui = "CategoryManager.delete" ->
                    handleCategoryDeleted(vw, c.snapshot.categories, c.rowId)
               [] OTHER -> vw
  IN
  /\ c.pc = "done" /\ c.ui # ""
  /\ view' = [view EXCEPT ![v] = after]
  /\ call' = [call EXCEPT ![v] = IdleCall]
  /\ UNCHANGED << lists, categories, items, nextId, rls, codeWidth, calc, channels >>

(***************************************************************************)
(* Specification of list creation: concurrent createList calls on an       *)
(* empty store, with or without the policies, the store failing at will.   *)
(* The code column is as wide as schema.sql makes it, or as wide as the    *)
(* generated codes, as it is in any store that holds a list.               *)
(***************************************************************************)
InitLists ==
  /\ lists = {}
  /\ categories = {}
  /\ items = {}
  /\ nextId = [lists |-> 0, categories |-> 0, items |-> 0]
  /\ rls \in BOOLEAN
  /\ codeWidth \in { CodeColumnWidth, GeneratedCodeWidth }
  /\ calc = NoCalc
  /\ call = [k \in Callers |-> IdleCall]
  /\ channels = << >>
  /\ view = [v \in Callers |-> ClosedView]

NextLists ==
  \E k \in Callers :
    \/ CreateList(k)
    \/ \E code \in generateListCode, fail \in BOOLEAN : CreateListInsert(k, code, fail)
    \/ \E fail \in BOOLEAN : CreateListDefaults(k, fail)
    \/ \E fail \in BOOLEAN : CreateListRollback(k, fail)
    \/ Return(k)

SpecLists == InitLists /\ [][NextLists]_vars

(***************************************************************************)
(* Specification of the category and item stores: concurrent API calls on  *)
(* one list that createList has made, with its six default categories.     *)
(***************************************************************************)
TheList == [id |-> 1, code |-> ListCode("A"), created_at |-> 1]

CategoryNameInputs == { << "B" >>, << "b", " " >>, << " " >> }

ItemNameInputs == { << "x" >> }

\* what a caller may pass as an item's category: any text
CategoryInputs == { Altro, << "B" >> }

\* the ids a caller may ask to delete: the custom categories and "Altro"
DeletableInputs ==
  { c.id : c \in { r \in categories : ~r.is_default \/ r.name = Altro } }

CustomInserted == nextId.categories - Len(DEFAULT_CATEGORIES) * nextId.lists

InitCats ==
  /\ lists = {TheList}
  /\ rls = FALSE
  /\ codeWidth = GeneratedCodeWidth
  /\ calc = NoCalc
  /\ categories = DefaultCategoryRows(TheList.id, 0)
  /\ items = {}
  /\ nextId = [lists |-> 1, categories |-> Len(DEFAULT_CATEGORIES), items |-> 0]
  /\ call = [k \in Callers |-> IdleCall]
  /\ channels = << >>
  /\ view = [v \in Callers |-> ClosedView]

\* the API calls of the callers ks, the store failing as faults allows
NextCatsOf(ks, faults) ==
  \E k \in ks :
    \/ /\ CustomInserted < MaxCustom
       /\ \E name \in CategoryNameInputs : CreateCategory(k, TheList.id, name)
    \/ \E fail \in faults : CreateCategoryCheck(k, fail)
    \/ \E fail \in faults : CreateCategoryOrder(k, fail)
    \/ \E fail \in faults : CreateCategoryInsert(k, fail)
    \/ \E id \in DeletableInputs : DeleteCategory(k, id, TheList.id)
    \/ \E fail \in faults : DeleteCategoryFetch(k, fail)
    \/ \E fail \in faults : DeleteCategoryReassign(k, fail)
    \/ \E fail \in faults : DeleteCategoryDelete(k, fail)
    \/ /\ nextId.items < MaxItems
       /\ \E name \in ItemNameInputs, category \in CategoryInputs :
            AddItem(k, TheList.id, name, category)
    \/ \E fail \in faults : AddItemInsert(k, fail)
    \/ Return(k)

\* concurrent callers, the store answering every call
NextCats == NextCatsOf(Callers, {FALSE})

SpecCats == InitCats /\ [][NextCats]_vars

\* one caller at a time: each call ends before the next one starts
Alone == { 1 }

NextCatsAlone == NextCatsOf(Alone, {FALSE})

SpecCatsAlone == InitCats /\ [][NextCatsAlone]_vars

(***************************************************************************)
(* Specification of the shared list: every client has the list of InitCats *)
(* open, loaded and its channel joined, and uses the page.                 *)
(***************************************************************************)
\* payloads a channel has been sent when a client last starts a call
MaxEvents == 2

OpenView(v, itemRows) ==
  [ClosedView EXCEPT !.mounted = TRUE, !.code = TheList.code, !.list = TheList,
                     !.items = itemRows,
                     !.categories = RowsById(DefaultCategoryRows(TheList.id, 0)),
                     !.channelRef = v]

JoinedChannel(v) == [NewChannel(v, TheList.id) EXCEPT !.status = "joined"]

TheItem ==
  [id |-> 1, list_id |-> TheList.id, name |-> << "x" >>, category |-> Altro,
   bought |-> FALSE, created_at |-> 1]

InitSyncWith(itemRows) ==
  /\ lists = {TheList}
  /\ rls = FALSE
  /\ codeWidth = GeneratedCodeWidth
  /\ calc = NoCalc
  /\ categories = DefaultCategoryRows(TheList.id, 0)
  /\ items = { itemRows[n] : n \in 1..Len(itemRows) }
  /\ nextId = [lists |-> 1, categories |-> Len(DEFAULT_CATEGORIES),
               items |-> Len(itemRows)]
  /\ call = [k \in Callers |-> IdleCall]
  /\ channels = [v \in Callers |-> JoinedChannel(v)]
  /\ view = [v \in Callers |-> OpenView(v, itemRows)]

\* a client may start a call while no channel has been sent MaxEvents payloads
MayWrite ==
  \A id \in DOMAIN channels : channels[id].received < MaxEvents

\* the selector's options offered to the form: "Altro" and the custom ones
SelectorInputs(v) ==
  { m \in 1..Len(view[v].categories) :
      \/ view[v].categories[m].name = Altro
      \/ ~view[v].categories[m].is_default }

Quiescent ==
  /\ \A k \in Callers : call[k].op = "idle"
  /\ \A id \in DOMAIN channels :
       channels[id].status = "joined" => channels[id].queue = << >>

InitSync == InitSyncWith(<< >>)

NextSync ==
  \/ \E v \in Callers :
       \/ /\ MayWrite /\ nextId.items < MaxItems
          /\ \E name \in ItemNameInputs, m \in SelectorInputs(v) :
               SubmitItem(v, name, m)
       \/ AddItemInsert(v, FALSE)
       \/ /\ MayWrite
          /\ \E n \in 1..Len(view[v].items) : ToggleBought(v, n)
       \/ UpdateItemBoughtStore(v, FALSE)
       \/ /\ MayWrite
          /\ \E n \in 1..Len(view[v].items) : ClickDeleteItem(v, n)
       \/ DeleteItemStore(v, FALSE)
       \/ /\ MayWrite /\ CustomInserted < MaxCustom
          /\ \E name \in CategoryNameInputs : SubmitCategory(v, name)
       \/ CreateCategoryCheck(v, FALSE)
       \/ CreateCategoryOrder(v, FALSE)
       \/ CreateCategoryInsert(v, FALSE)
       \/ /\ MayWrite
          /\ \E m \in 1..Len(view[v].categories) : ClickDeleteCategory(v, m)
       \/ DeleteCategoryFetch(v, FALSE)
       \/ DeleteCategoryReassign(v, FALSE)
       \/ DeleteCategoryDelete(v, FALSE)
       \/ Respond(v)
  \/ \E id \in DOMAIN channels : Deliver(id)

SpecSync == InitSync /\ [][NextSync]_vars

(***************************************************************************)
(* Specification of the toggles: the clients of the shared list, which     *)
(* holds one item, only mark it bought or not bought.                      *)
(***************************************************************************)
InitToggles == InitSyncWith(<< TheItem >>)

NextToggles ==
  \/ \E v \in Callers :
       \/ /\ MayWrite
          /\ \E n \in 1..Len(view[v].items) : ToggleBought(v, n)
       \/ UpdateItemBoughtStore(v, FALSE)
       \/ Respond(v)
  \/ \E id \in DOMAIN channels : Deliver(id)

SpecToggles == InitToggles /\ [][NextToggles]_vars

(***************************************************************************)
(* Specification of the pages: two lists that createList has made; the     *)
(* clients open a page on a code, change the code, retry, close the page,  *)
(* and add items to the list on screen; a load may fail.                   *)
(***************************************************************************)
OtherList == [id |-> 2, code |-> ListCode("7"), created_at |-> 2]

\* the codes of the two lists and a text that is no list code
CodeInputs == { TheList.code, OtherList.code, << "x" >> }

InitViews ==
  /\ lists = {TheList, OtherList}
  /\ rls = FALSE
  /\ codeWidth = GeneratedCodeWidth
  /\ calc = NoCalc
  /\ categories = DefaultCategoryRows(TheList.id, 0)
                    \cup DefaultCategoryRows(OtherList.id, Len(DEFAULT_CATEGORIES))
  /\ items = {}
  /\ nextId = [lists |-> 2, categories |-> 2 * Len(DEFAULT_CATEGORIES),
               items |-> 0]
  /\ call = [k \in Callers |-> IdleCall]
  /\ channels = << >>
  /\ view = [v \in Callers |-> ClosedView]

\* the clients that open pages; the other callers use the API on either list
Pages == { 1 }

NextViews ==
  \/ \E v \in Pages :
       \/ \E code \in CodeInputs : Mount(v, code)
       \/ \E code \in CodeInputs : Navigate(v, code)
       \/ Retry(v)
       \/ LoadGetList(v, FALSE)
       \/ LoadGetItems(v, FALSE)
       \/ LoadGetCategories(v, FALSE)
       \/ LoadFinish(v)
       \/ Unmount(v)
       \/ /\ nextId.items < MaxItems
          /\ \E name \in ItemNameInputs, m \in SelectorInputs(v) :
               SubmitItem(v, name, m)
       \/ Respond(v)
  \/ \E k \in Callers \ Pages :
       \/ /\ nextId.items < MaxItems
          /\ \E l \in lists, name \in ItemNameInputs :
               AddItem(k, l.id, name, Altro)
       \/ Return(k)
  \/ \E k \in Callers : AddItemInsert(k, FALSE)
  \/ \E id \in DOMAIN channels :
       \/ ChannelJoined(id)
       \/ Deliver(id)

SpecViews == InitViews /\ [][NextViews]_vars

(***************************************************************************)
(* Specification of the hook: components render useListSubscription with   *)
(* no list or one of the two lists of InitViews, in any order, call the    *)
(* returned unsubscribe, and unmount; the server confirms the joins.       *)
(***************************************************************************)
\* listId: null, or the id of a list
ListInputs == { NoRow, TheList, OtherList }

NextHook ==
  \/ \E v \in Callers :
       \/ \E l \in ListInputs : Render(v, l)
       \/ Unsubscribe(v)
       \/ Unmount(v)
  \/ \E id \in DOMAIN channels : ChannelJoined(id)

SpecHook == InitViews /\ [][NextHook]_vars

(***************************************************************************)
(* Specification of the category names: one caller creates and deletes     *)
(* categories of the list of InitCats, with names that differ in case and  *)
(* in blanks and names that hold the characters _ and %.                   *)
(***************************************************************************)
PatternNameInputs ==
  { << "B" >>, << " ", "b" >>, << "C" >>, << "_" >>, << "%" >> }

NextNames ==
  \E k \in Alone :
    \/ /\ CustomInserted < MaxCustom
       /\ \E name \in PatternNameInputs : CreateCategory(k, TheList.id, name)
    \/ CreateCategoryCheck(k, FALSE)
    \/ CreateCategoryOrder(k, FALSE)
    \/ CreateCategoryInsert(k, FALSE)
    \/ \E id \in DeletableInputs : DeleteCategory(k, id, TheList.id)
    \/ DeleteCategoryFetch(k, FALSE)
    \/ DeleteCategoryReassign(k, FALSE)
    \/ DeleteCategoryDelete(k, FALSE)
    \/ Return(k)

SpecNames == InitCats /\ [][NextNames]_vars

(***************************************************************************)
(* Specification of the lookups: callers look codes up in a store that     *)
(* holds the two lists of InitViews; the store may fail.                   *)
(***************************************************************************)
\* the codes of the two lists, letter-case variants of them, a well-formed
\* code of no list, and malformed texts
LookupCodeInputs ==
  { TheList.code, toLowerCase(TheList.code), [TheList.code EXCEPT ![5] = "a"],
    OtherList.code, [TheList.code EXCEPT ![5] = "7"],
    << "x" >>, SubSeq(TheList.code, 1, Len(TheList.code) - 1) }

NextLookup ==
  \E k \in Callers :
    \/ \E code \in LookupCodeInputs : GetListByCode(k, code)
    \/ \E fail \in BOOLEAN : GetListByCodeLookup(k, fail)
    \/ Return(k)

SpecLookup == InitViews /\ [][NextLookup]_vars

(***************************************************************************)
(* Specification of the items: callers add items to the list of InitCats,  *)
(* with names and categories that hold blanks or are empty, and mark items *)
(* bought; the store may refuse an insert.                                 *)
(***************************************************************************)
BlankNameInputs == { << "x" >>, << " ", "x", " " >>, << " " >> }

BlankCategoryInputs == { Altro, << " ", "B" >>, << " " >>, << >> }

NextItems ==
  \E k \in Callers :
    \/ /\ nextId.items < MaxItems
       /\ \E name \in BlankNameInputs, category \in BlankCategoryInputs :
            AddItem(k, TheList.id, name, category)
    \/ \E fail \in BOOLEAN : AddItemInsert(k, fail)
    \/ \E i \in items, bought \in BOOLEAN : UpdateItemBought(k, i.id, bought)
    \/ UpdateItemBoughtStore(k, FALSE)
    \/ Return(k)

SpecItems == InitCats /\ [][NextItems]_vars

(***************************************************************************)
(* Specification of the validation of names: callers add items and create  *)
(* categories in the list of InitCats with names and categories that are   *)
(* empty, blank, or text with blanks around it.                            *)
(***************************************************************************)
EmptyOrBlankInputs == { << >>, << " " >>, << "\t", " " >> }

ValidatedNameInputs == EmptyOrBlankInputs \cup { << "x" >>, << " ", "x" >> }

ValidatedCategoryInputs == EmptyOrBlankInputs \cup { Altro }

NextValidation ==
  \E k \in Callers :
    \/ /\ nextId.items < MaxItems
       /\ \E name \in ValidatedNameInputs, category \in ValidatedCategoryInputs :
            AddItem(k, TheList.id, name, category)
    \/ \E fail \in BOOLEAN : AddItemInsert(k, fail)
    \/ /\ CustomInserted < MaxCustom
       /\ \E name \in ValidatedNameInputs : CreateCategory(k, TheList.id, name)
    \/ CreateCategoryCheck(k, FALSE)
    \/ CreateCategoryOrder(k, FALSE)
    \/ \E fail \in BOOLEAN : CreateCategoryInsert(k, fail)
    \/ Return(k)

SpecValidation == InitCats /\ [][NextValidation]_vars

(***************************************************************************)
(* Specification of the item operations: callers add items to the list of  *)
(* InitCats, mark them bought or not bought, and delete them, by ids that  *)
(* may match no item; the store may fail an update or a delete.            *)
(***************************************************************************)
\* the ids a caller may address: those the store has given out, and the next
ItemIdInputs == 1..(nextId.items + 1)

NextItemOps ==
  \E k \in Callers :
    \/ /\ nextId.items < MaxItems
       /\ \E name \in ItemNameInputs : AddItem(k, TheList.id, name, Altro)
    \/ AddItemInsert(k, FALSE)
    \/ \E id \in ItemIdInputs, bought \in BOOLEAN : UpdateItemBought(k, id, bought)
    \/ \E fail \in BOOLEAN : UpdateItemBoughtStore(k, fail)
    \/ \E id \in ItemIdInputs : DeleteItem(k, id)
    \/ \E fail \in BOOLEAN : DeleteItemStore(k, fail)
    \/ Return(k)

SpecItemOps == InitCats /\ [][NextItemOps]_vars

(***************************************************************************)
(* Specification of the store of one list: one caller creates and deletes  *)
(* categories and adds items, while the others add items, mark them bought *)
(* or not bought, and delete them.                                         *)
(***************************************************************************)
NextStore ==
  \/ NextCatsOf(Alone, {FALSE})
  \/ \E k \in Callers \ Alone :
       \/ /\ nextId.items < MaxItems
          /\ \E name \in ItemNameInputs, category \in CategoryInputs :
               AddItem(k, TheList.id, name, category)
       \/ AddItemInsert(k, FALSE)
       \/ \E i \in items, bought \in BOOLEAN : UpdateItemBought(k, i.id, bought)
       \/ UpdateItemBoughtStore(k, FALSE)
       \/ \E i \in items : DeleteItem(k, i.id)
       \/ DeleteItemStore(k, FALSE)
       \/ Return(k)

SpecStore == InitCats /\ [][NextStore]_vars

(***************************************************************************)
(* sorting.ts                                                              *)
(***************************************************************************)
\* the place of a letter in the alphabet, whatever its case
LetterRank(ch) ==
  LET l == toLowerChar(ch) IN
  IF \E i \in 1..Len(LowerChars) : LowerChars[i] = l
    THEN CHOOSE i \in 1..Len(LowerChars) : LowerChars[i] = l
    ELSE 0

IsLowerChar(ch) == \E i \in 1..Len(LowerChars) : LowerChars[i] = ch

\* the letters compared as letters, the shorter text first
RECURSIVE CompareLetters(_, _)
CompareLetters(a, b) ==
  IF a = << >> /\ b = << >> THEN 0
  ELSE IF a = << >> THEN -1
  ELSE IF b = << >> THEN 1
  ELSE IF LetterRank(Head(a)) < LetterRank(Head(b)) THEN -1
  ELSE IF LetterRank(Head(a)) > LetterRank(Head(b)) THEN 1
  ELSE CompareLetters(Tail(a), Tail(b))

\* texts of the same letters: the first difference of case, lower case first
RECURSIVE CompareCase(_, _)
CompareCase(a, b) ==
  IF a = << >> \/ b = << >> THEN 0
  ELSE IF Head(a) = Head(b) THEN CompareCase(Tail(a), Tail(b))
  ELSE IF IsLowerChar(Head(a)) THEN -1
  ELSE 1

\* a.localeCompare(b) in the default collation
localeCompare(a, b) ==
  IF CompareLetters(a, b) # 0 THEN CompareLetters(a, b) ELSE CompareCase(a, b)

\* a comparison of categories by display_order alone
compareByDisplayOrder(a, b) == a.display_order - b.display_order

\* the comparison function of sortCategories
compareCategories(a, b) ==
  IF a.is_default /\ ~b.is_default THEN -1
  ELSE IF ~a.is_default /\ b.is_default THEN 1
  ELSE IF a.is_default /\ b.is_default THEN a.display_order - b.display_order
  ELSE localeCompare(a.name, b.name)

\* Array.prototype.sort is stable: a row goes behind the rows it does not
\* precede
RECURSIVE InsertCategory(_, _)
InsertCategory(c, sorted) ==
  IF sorted = << >> THEN << c >>
  ELSE IF compareCategories(Head(sorted), c) <= 0
    THEN << Head(sorted) >> \o InsertCategory(c, Tail(sorted))
    ELSE << c >> \o sorted

\* [...categories].sort(compare)
RECURSIVE sortCategories(_)
sortCategories(rows) ==
  IF rows = << >> THEN << >>
  ELSE InsertCategory(rows[Len(rows)],
                      sortCategories(SubSeq(rows, 1, Len(rows) - 1)))

\* itemsByCategory.get(name): the items of that category, in their order
ItemsByCategory(itemRows, name) ==
  SelectSeq(itemRows, LAMBDA i : i.category = name)

\* a filter that keeps every category, with items or without
AllCategories(itemRows, categoryRows) == categoryRows

\* categories.filter(cat => itemsByCategory.has(cat.name) && ...length > 0)
categoriesWithItems(itemRows, categoryRows) ==
  SelectSeq(categoryRows, LAMBDA c : Len(ItemsByCategory(itemRows, c.name)) > 0)

groupItemsByCategory(itemRows, categoryRows) ==
  LET sortedCategories == sortCategories(categoriesWithItems(itemRows, categoryRows))
  IN [n \in 1..Len(sortedCategories) |->
        [ category |-> sortedCategories[n],
          items |-> ItemsByCategory(itemRows, sortedCategories[n].name) ]]

(***************************************************************************)
(* Specification of the grouping: groupItemsByCategory and sortCategories  *)
(* are applied to items and categories of one list as a ListDashboard may  *)
(* hold them: the categories in any order and any of them missing, the     *)
(* items of any of the categories.                                         *)
(***************************************************************************)
MaxRows == 3

\* sequences of at most MaxRows rows of rows, no row twice
RECURSIVE Arrangements(_, _)
Arrangements(rows, n) ==
  IF n = 0 THEN { << >> }
  ELSE LET shorter == Arrangements(rows, n - 1) IN
       shorter \cup { Append(s, r) : s \in shorter, r \in rows }

NoRowTwice(s) == \A m, n \in 1..Len(s) : s[m] = s[n] => m = n

\* two default categories, and custom categories whose alphabetical order is
\* neither the order of their insertion nor that of their character codes
GroupedCategoryRows ==
  { [id |-> 1, list_id |-> TheList.id, name |-> DEFAULT_CATEGORIES[1].name,
     is_default |-> TRUE, display_order |-> DEFAULT_CATEGORIES[1].display_order],
    [id |-> 6, list_id |-> TheList.id, name |-> Altro,
     is_default |-> TRUE, display_order |-> DEFAULT_CATEGORIES[6].display_order],
    [id |-> 7, list_id |-> TheList.id, name |-> << "B" >>,
     is_default |-> FALSE, display_order |-> 7],
    [id |-> 8, list_id |-> TheList.id, name |-> << "a" >>,
     is_default |-> FALSE, display_order |-> 8] }

GroupedCategoryNames == { c.name : c \in GroupedCategoryRows }

CategoryArrays ==
  { s \in Arrangements(GroupedCategoryRows, MaxRows) : NoRowTwice(s) }

\* the nth item of the list, in one of the categories
ItemArraysOf(n) ==
  [ 1..n -> GroupedCategoryNames ]

ItemArrays ==
  UNION { { [m \in 1..n |->
              [ id |-> m, list_id |-> TheList.id, name |-> << "x" >>,
                category |-> cs[m], bought |-> FALSE, created_at |-> m ]]
            : cs \in ItemArraysOf(n) } : n \in 0..MaxRows }

GroupingInputs ==
  { [NoCalc EXCEPT !.items = i, !.categories = c] :
      i \in ItemArrays, c \in CategoryArrays }

InitGrouping ==
  /\ lists = {TheList}
  /\ rls = FALSE
  /\ codeWidth = GeneratedCodeWidth
  /\ categories = DefaultCategoryRows(TheList.id, 0)
  /\ items = {}
  /\ nextId = [lists |-> 1, categories |-> Len(DEFAULT_CATEGORIES), items |-> 0]
  /\ call = [k \in Callers |-> IdleCall]
  /\ channels = << >>
  /\ view = [v \in Callers |-> ClosedView]
  /\ calc \in GroupingInputs

\* const categoryGroups = groupItemsByCategory(items, categories)
GroupItemsByCategory ==
  /\ calc.fn = ""
  /\ calc' = [calc EXCEPT !.fn = "groupItemsByCategory",
                !.groups = groupItemsByCategory(calc.items, calc.categories)]
  /\ UNCHANGED << lists, categories, items, nextId, rls, codeWidth, call,
                  channels, view >>

\* sortCategories(categories): the array sorted is the copy [...categories]
SortCategories ==
  /\ calc.fn = ""
  /\ calc' = [calc EXCEPT !.fn = "sortCategories",
                !.sorted = sortCategories(calc.categories)]
  /\ UNCHANGED << lists, categories, items, nextId, rls, codeWidth, call,
                  channels, view >>

NextGrouping == GroupItemsByCategory \/ SortCategories

SpecGrouping == InitGrouping /\ [][NextGrouping]_vars

(***************************************************************************)
(* sortItemsWithinCategory.  created_at is the text of a TIMESTAMP WITH    *)
(* TIME ZONE of the store, an instant counted in microseconds; a Date      *)
(* holds milliseconds.                                                     *)
(***************************************************************************)
MicrosPerMilli == 1000

\* new Date(created_at).getTime()
getTime(created_at) == created_at \div MicrosPerMilli

\* the comparison function of sortItemsWithinCategory
compareItems(a, b) ==
  IF a.bought # b.bought
    THEN IF a.bought THEN 1 ELSE -1
    ELSE getTime(a.created_at) - getTime(b.created_at)

RECURSIVE InsertItem(_, _)
InsertItem(i, sorted) ==
  IF sorted = << >> THEN << i >>
  ELSE IF compareItems(Head(sorted), i) <= 0
    THEN << Head(sorted) >> \o InsertItem(i, Tail(sorted))
    ELSE << i >> \o sorted

\* [...items].sort(compare)
RECURSIVE sortItemsWithinCategory(_)
sortItemsWithinCategory(rows) ==
  IF rows = << >> THEN << >>
  ELSE InsertItem(rows[Len(rows)],
                  sortItemsWithinCategory(SubSeq(rows, 1, Len(rows) - 1)))

(***************************************************************************)
(* Specification of the order of the items of a category: CategoryGroup    *)
(* applies sortItemsWithinCategory to the items of its group, bought or    *)
(* not, created in the same millisecond or in different ones, in any order.*)
(***************************************************************************)
\* instants in microseconds: two of one millisecond, one of the next
CreatedAtInputs == { MicrosPerMilli + 100, MicrosPerMilli + 900, 2 * MicrosPerMilli }

SortedItemArrays ==
  UNION { { [m \in 1..n |->
              [ id |-> m, list_id |-> TheList.id, name |-> << "x" >>,
                category |-> Altro, bought |-> f[m][1], created_at |-> f[m][2] ]]
            : f \in [ 1..n -> BOOLEAN \X CreatedAtInputs ] } : n \in 0..MaxRows }

InitItemSort ==
  /\ lists = {TheList}
  /\ rls = FALSE
  /\ codeWidth = GeneratedCodeWidth
  /\ categories = DefaultCategoryRows(TheList.id, 0)
  /\ items = {}
  /\ nextId = [lists |-> 1, categories |-> Len(DEFAULT_CATEGORIES), items |-> 0]
  /\ call = [k \in Callers |-> IdleCall]
  /\ channels = << >>
  /\ view = [v \in Callers |-> ClosedView]
  /\ calc \in { [NoCalc EXCEPT !.items = i] : i \in SortedItemArrays }

\* const sortedItems = sortItemsWithinCategory(items): the array sorted is
\* the copy [...items]
SortItemsWithinCategory ==
  /\ calc.fn = ""
  /\ calc' = [calc EXCEPT !.fn = "sortItemsWithinCategory",
                !.sorted = sortItemsWithinCategory(calc.items)]
  /\ UNCHANGED << lists, categories, items, nextId, rls, codeWidth, call,
                  channels, view >>

NextItemSort == SortItemsWithinCategory

SpecItemSort == InitItemSort /\ [][NextItemSort]_vars

(***************************************************************************)
(* Specification of the list codes: generateListCode builds a code, one    *)
(* character of chars per turn of its loop, and isValidListCodeFormat is   *)
(* applied to the codes built and to texts that are not codes.             *)
(***************************************************************************)
\* const chars = 'ABCDEFGHIJKLMNOPQRSTUVWXYZ0123456789'
chars ==
  UpperChars \o << "0", "1", "2", "3", "4", "5", "6", "7", "8", "9" >>

\* the values of Math.floor(Math.random() * chars.length) that are drawn:
\* the first and the last letter, the first and the last digit
RandomIndexes == { 1, Len(UpperChars), Len(UpperChars) + 1, Len(chars) }

\* texts that are not codes, beside one that is
CodeFormatInputs ==
  { ListCode("A"),
    toLowerCase(ListCode("A")),
    << "g", "r", "o", "-" >> \o [i \in 1..CodeSuffixLen |-> "A"],
    << "G", "R", "O", "-" >> \o [i \in 1..CodeSuffixLen |-> "a"],
    [ListCode("A") EXCEPT ![4 + CodeSuffixLen] = "a"],
    [ListCode("A") EXCEPT ![5] = "-"],
    << "G", "R", "A", "-" >> \o [i \in 1..CodeSuffixLen |-> "A"],
    << "G", "R", "O" >> \o [i \in 1..CodeSuffixLen |-> "A"],
    << "X" >> \o ListCode("A"),
    SubSeq(ListCode("A"), 1, 3 + CodeSuffixLen),
    ListCode("A") \o << "A" >>,
    ListCode("A") \o << "\n" >>,
    << " " >> \o ListCode("7"),
    << "G", "R", "O", "-" >>,
    << >> }

InitCodes ==
  /\ lists = {}
  /\ rls = FALSE
  /\ codeWidth = GeneratedCodeWidth
  /\ categories = {}
  /\ items = {}
  /\ nextId = [lists |-> 0, categories |-> 0, items |-> 0]
  /\ call = [k \in Callers |-> IdleCall]
  /\ channels = << >>
  /\ view = [v \in Callers |-> ClosedView]
  /\ calc \in { [NoCalc EXCEPT !.text = t] : t \in CodeFormatInputs }

\* let code = 'GRO-'
GenerateListCode ==
  /\ calc = NoCalc
  /\ calc' = [calc EXCEPT !.fn = "generateListCode",
                !.text = << "G", "R", "O", "-" >>, !.i = 0, !.generated = TRUE]
  /\ UNCHANGED << lists, categories, items, nextId, rls, codeWidth, call,
                  channels, view >>

\* for (let i = 0; i < 7; i++) code += chars.charAt(<random index>)
GenerateListCodeChar(index) ==
  /\ calc.fn = "generateListCode" /\ calc.i < CodeSuffixLen
  /\ calc' = [calc EXCEPT !.text = Append(@, chars[index]), !.i = @ + 1]
  /\ UNCHANGED << lists, categories, items, nextId, rls, codeWidth, call,
                  channels, view >>

\* isValidListCodeFormat(code), of a text or of the code generateListCode
\* has returned
IsValidListCodeFormat ==
  /\ \/ calc.fn = ""
     \/ calc.fn = "generateListCode" /\ calc.i = CodeSuffixLen
  /\ calc' = [calc EXCEPT !.fn = "isValidListCodeFormat",
                !.valid = isValidListCodeFormat(calc.text)]
  /\ UNCHANGED << lists, categories, items, nextId, rls, codeWidth, call,
                  channels, view >>

NextCodes ==
  \/ GenerateListCode
  \/ \E index \in RandomIndexes : GenerateListCodeChar(index)
  \/ IsValidListCodeFormat

SpecCodes == InitCodes /\ [][NextCodes]_vars

(***************************************************************************)
(* serializeItem, deserializeItem, serializeItems, deserializeItems: the   *)
(* JSON text is a sequence of characters, written by JSON.stringify and    *)
(* read by JSON.parse.                                                     *)
(***************************************************************************)
\* the property names of SerializedItem, in the order they are written
ItemKeys ==
  [ id |-> << "i", "d" >>,
    list_id |-> << "l", "i", "s", "t", "_", "i", "d" >>,
    name |-> << "n", "a", "m", "e" >>,
    category |-> << "c", "a", "t", "e", "g", "o", "r", "y" >>,
    bought |-> << "b", "o", "u", "g", "h", "t" >>,
    created_at |-> << "c", "r", "e", "a", "t", "e", "d", "_", "a", "t" >> ]

\* a writer of texts that escapes no character
WrittenAsIs(ch) == << ch >>

\* JSON.stringify of one character of a string
EscapeChar(ch) ==
  IF ch = "\"" THEN << "\\", "\"" >>
  ELSE IF ch = "\\" THEN << "\\", "\\" >>
  ELSE IF ch = "\n" THEN << "\\", "n" >>
  ELSE IF ch = "\t" THEN << "\\", "t" >>
  ELSE << ch >>

RECURSIVE EscapeChars(_)
EscapeChars(s) ==
  IF s = << >> THEN << >> ELSE EscapeChar(Head(s)) \o EscapeChars(Tail(s))

\* JSON.stringify of a string and of a boolean
StringifyText(s) == << "\"" >> \o EscapeChars(s) \o << "\"" >>

StringifyBoolean(b) ==
  IF b THEN << "t", "r", "u", "e" >> ELSE << "f", "a", "l", "s", "e" >>

StringifyMember(key, json) == StringifyText(key) \o << ":" >> \o json

\* JSON.stringify of the object { id, list_id, name, category, bought, created_at }
StringifyItem(item) ==
  << "{" >>
  \o StringifyMember(ItemKeys.id, StringifyText(item.id)) \o << "," >>
  \o StringifyMember(ItemKeys.list_id, StringifyText(item.list_id)) \o << "," >>
  \o StringifyMember(ItemKeys.name, StringifyText(item.name)) \o << "," >>
  \o StringifyMember(ItemKeys.category, StringifyText(item.category)) \o << "," >>
  \o StringifyMember(ItemKeys.bought, StringifyBoolean(item.bought)) \o << "," >>
  \o StringifyMember(ItemKeys.created_at, StringifyText(item.created_at))
  \o << "}" >>

serializeItem(item) == StringifyItem(item)

RECURSIVE StringifyElements(_)
StringifyElements(rows) ==
  IF rows = << >> THEN << >>
  ELSE IF Len(rows) = 1 THEN StringifyItem(rows[1])
  ELSE StringifyItem(Head(rows)) \o << "," >> \o StringifyElements(Tail(rows))

\* JSON.stringify(items.map(item => ({ ... })))
serializeItems(rows) == << "[" >> \o StringifyElements(rows) \o << "]" >>

\* JSON.parse throws a SyntaxError
SyntaxError == [ok |-> FALSE, value |-> << >>, rest |-> << >>]

Parsed(value, rest) == [ok |-> TRUE, value |-> value, rest |-> rest]

StartsWith(s, p) == Len(s) >= Len(p) /\ SubSeq(s, 1, Len(p)) = p

Drop(s, n) == SubSeq(s, n + 1, Len(s))

\* the character that "\" and ch stand for in a JSON string
Unescaped(ch) ==
  IF ch = "n" THEN "\n" ELSE IF ch = "t" THEN "\t" ELSE ch

\* the characters of a JSON string up to its closing quote
RECURSIVE ParseChars(_, _)
ParseChars(s, read) ==
  IF s = << >> THEN SyntaxError
  ELSE IF Head(s) = "\"" THEN Parsed(read, Tail(s))
  ELSE IF Head(s) = "\\"
    THEN IF Len(s) >= 2 /\ s[2] \in { "\"", "\\", "/", "n", "t" }
           THEN ParseChars(Drop(s, 2), Append(read, Unescaped(s[2])))
           ELSE SyntaxError
  ELSE IF Head(s) \in { "\n", "\t" } THEN SyntaxError
  ELSE ParseChars(Tail(s), Append(read, Head(s)))

ParseText(s) ==
  IF StartsWith(s, << "\"" >>) THEN ParseChars(Tail(s), << >>) ELSE SyntaxError

ParseValue(s) ==
  IF StartsWith(s, StringifyBoolean(TRUE)) THEN Parsed(TRUE, Drop(s, 4))
  ELSE IF StartsWith(s, StringifyBoolean(FALSE)) THEN Parsed(FALSE, Drop(s, 5))
  ELSE ParseText(s)

\* the members of an object, up to its closing brace
RECURSIVE ParseMembers(_, _)
ParseMembers(s, read) ==
  LET key == ParseText(s) IN
  IF ~key.ok \/ ~StartsWith(key.rest, << ":" >>) THEN SyntaxError
  ELSE LET val == ParseValue(Tail(key.rest))
           members == Append(read, [key |-> key.value, value |-> val.value])
       IN IF ~val.ok THEN SyntaxError
          ELSE IF StartsWith(val.rest, << "," >>)
            THEN ParseMembers(Tail(val.rest), members)
          ELSE IF StartsWith(val.rest, << "}" >>)
            THEN Parsed(members, Tail(val.rest))
          ELSE SyntaxError

ParseObject(s) ==
  IF StartsWith(s, << "{", "}" >>) THEN Parsed(<< >>, Drop(s, 2))
  ELSE IF StartsWith(s, << "{" >>) THEN ParseMembers(Tail(s), << >>)
  ELSE SyntaxError

\* the elements of an array, up to its closing bracket
RECURSIVE ParseElements(_, _)
ParseElements(s, read) ==
  LET element == ParseObject(s) IN
  IF ~element.ok THEN SyntaxError
  ELSE IF StartsWith(element.rest, << "," >>)
    THEN ParseElements(Tail(element.rest), Append(read, element.value))
  ELSE IF StartsWith(element.rest, << "]" >>)
    THEN Parsed(Append(read, element.value), Tail(element.rest))
  ELSE SyntaxError

ParseArray(s) ==
  IF StartsWith(s, << "[", "]" >>) THEN Parsed(<< >>, Drop(s, 2))
  ELSE IF StartsWith(s, << "[" >>) THEN ParseElements(Tail(s), << >>)
  ELSE SyntaxError

\* JSON.parse(json): the whole text is one value
WholeText(parsed) ==
  IF parsed.ok /\ parsed.rest = << >> THEN parsed ELSE SyntaxError

\* parsed.<key>: the value of the last member of that name
undefined == << "u", "n", "d", "e", "f", "i", "n", "e", "d" >>

Property(members, key) ==
  LET at == { n \in 1..Len(members) : members[n].key = key } IN
  IF at = {} THEN undefined
  ELSE members[CHOOSE n \in at : \A m \in at : m <= n].value

\* the object literal that deserializeItem and deserializeItems build
ItemOf(members) ==
  [ id |-> Property(members, ItemKeys.id),
    list_id |-> Property(members, ItemKeys.list_id),
    name |-> Property(members, ItemKeys.name),
    category |-> Property(members, ItemKeys.category),
    bought |-> Property(members, ItemKeys.bought),
    created_at |-> Property(members, ItemKeys.created_at) ]

\* the value of deserializeItem(json), or that it throws
deserializeItem(json) ==
  LET parsed == WholeText(ParseObject(json)) IN
  IF parsed.ok THEN [thrown |-> FALSE, item |-> ItemOf(parsed.value)]
  ELSE [thrown |-> TRUE, item |-> NoItem]

\* the value of deserializeItems(json), or that it throws
deserializeItems(json) ==
  LET parsed == WholeText(ParseArray(json)) IN
  IF parsed.ok
    THEN [thrown |-> FALSE,
          items |-> [n \in 1..Len(parsed.value) |-> ItemOf(parsed.value[n])]]
    ELSE [thrown |-> TRUE, items |-> << >>]

(***************************************************************************)
(* Specification of the serialization: items whose texts hold quotes,      *)
(* backslashes, line ends and the punctuation of JSON, and arrays of such  *)
(* items, are serialized and the text is deserialized.                     *)
(***************************************************************************)
SerializedTexts ==
  { << "x" >>, << "\"" >>, << "\\" >>, << "a", "\\", "\"", "," >>,
    << "}", "\n", "{" >>, << "t", "r", "u", "e" >>, << "\\", "n" >>,
    << " ", "[", "]", ":" >> }

SerializedCategories == { Altro, << "\"", ":", "\t" >>, << "B", "\\" >> }

\* the text of a timestamp
SerializedInstant ==
  << "2", "0", "2", "4", "-", "0", "1", "-", "0", "1", "T", "1", "0", ":",
     "0", "0", ":", "0", "0", ".", "1", "2", "3", "4", "5", "6", "+", "0",
     "0", ":", "0", "0" >>

SerializedItemInputs ==
  { [ id |-> << "1" >>, list_id |-> << "7" >>, name |-> n, category |-> c,
      bought |-> b, created_at |-> SerializedInstant ] :
      n \in SerializedTexts, c \in SerializedCategories, b \in BOOLEAN }

\* the items of the arrays
SerializedArrayItems ==
  { i \in SerializedItemInputs :
      /\ i.name \in { << "x" >>, << "a", "\\", "\"", "," >> }
      /\ i.category = << "\"", ":", "\t" >> }

InitSerialization ==
  /\ lists = {}
  /\ rls = FALSE
  /\ codeWidth = GeneratedCodeWidth
  /\ categories = {}
  /\ items = {}
  /\ nextId = [lists |-> 0, categories |-> 0, items |-> 0]
  /\ call = [k \in Callers |-> IdleCall]
  /\ channels = << >>
  /\ view = [v \in Callers |-> ClosedView]
  /\ calc \in { [NoCalc EXCEPT !.item = i] : i \in SerializedItemInputs }
            \cup { [NoCalc EXCEPT !.items = a] :
                     a \in Arrangements(SerializedArrayItems, MaxRows) }

SerializeItem ==
  /\ calc.fn = "" /\ calc.item # NoItem
  /\ calc' = [calc EXCEPT !.fn = "serializeItem",
                !.text = serializeItem(calc.item)]
  /\ UNCHANGED << lists, categories, items, nextId, rls, codeWidth, call,
                  channels, view >>

DeserializeItem ==
  /\ calc.fn = "serializeItem"
  /\ calc' = [calc EXCEPT !.fn = "deserializeItem",
                !.back = deserializeItem(calc.text).item,
                !.thrown = deserializeItem(calc.text).thrown]
  /\ UNCHANGED << lists, categories, items, nextId, rls, codeWidth, call,
                  channels, view >>

SerializeItems ==
  /\ calc.fn = "" /\ calc.item = NoItem
  /\ calc' = [calc EXCEPT !.fn = "serializeItems",
                !.text = serializeItems(calc.items)]
  /\ UNCHANGED << lists, categories, items, nextId, rls, codeWidth, call,
                  channels, view >>

DeserializeItems ==
  /\ calc.fn = "serializeItems"
  /\ calc' = [calc EXCEPT !.fn = "deserializeItems",
                !.backs = deserializeItems(calc.text).items,
                !.thrown = deserializeItems(calc.text).thrown]
  /\ UNCHANGED << lists, categories, items, nextId, rls, codeWidth, call,
                  channels, view >>

NextSerialization ==
  \/ SerializeItem
  \/ DeserializeItem
  \/ SerializeItems
  \/ DeserializeItems

SpecSerialization == InitSerialization /\ [][NextSerialization]_vars

(***************************************************************************)
(* Specification of the feed callbacks: a ListDashboard holds items and    *)
(* categories of its list, as loading, the feed and the handlers may have  *)
(* left them (a row twice, an item of a category without a row), and the   *)
(* channel hands it payloads of both tables, any of them twice in a row.   *)
(* calc keeps the payload, the callbacks called, the state before this     *)
(* delivery and the state before the first delivery of the payload.        *)
(***************************************************************************)
\* the client whose dashboard is looked at
Viewer == CHOOSE v \in Alone : TRUE

\* the local row of 'Altro'
AltroRow ==
  [id |-> 6, list_id |-> TheList.id, name |-> Altro,
   is_default |-> TRUE, display_order |-> DEFAULT_CATEGORIES[6].display_order]

\* two custom categories of the list, one also as the store holds it after
\* a change of its display_order
FeedCategoryRows ==
  { [id |-> 7, list_id |-> TheList.id, name |-> << "B" >>,
     is_default |-> FALSE, display_order |-> 7],
    [id |-> 7, list_id |-> TheList.id, name |-> << "B" >>,
     is_default |-> FALSE, display_order |-> 9],
    [id |-> 8, list_id |-> TheList.id, name |-> << "a" >>,
     is_default |-> FALSE, display_order |-> 8] }

\* items of the list: the first in either category, bought or not
FeedItemRows ==
  { [id |-> 1, list_id |-> TheList.id, name |-> << "x" >>, category |-> c,
     bought |-> b, created_at |-> 1]
    : c \in { Altro, << "B" >> }, b \in BOOLEAN }
    \cup { [id |-> 2, list_id |-> TheList.id, name |-> << "y" >>,
            category |-> << "B" >>, bought |-> FALSE, created_at |-> 2] }

\* the row an update of the store has left as row
ItemBefore(row) == [row EXCEPT !.bought = ~@]

CategoryBefore(row) == [row EXCEPT !.display_order = @ + 1]

FeedPayloads ==
  { InsertEvent("items", r) : r \in FeedItemRows }
    \cup { UpdateEvent("items", ItemBefore(r), r) : r \in FeedItemRows }
    \cup { DeleteEvent("items", r) : r \in FeedItemRows }
    \cup { InsertEvent("categories", r) : r \in FeedCategoryRows }
    \cup { UpdateEvent("categories", CategoryBefore(r), r) : r \in FeedCategoryRows }
    \cup { DeleteEvent("categories", r) : r \in FeedCategoryRows }

InitFeed ==
  /\ lists = {TheList}
  /\ rls = FALSE
  /\ codeWidth = GeneratedCodeWidth
  /\ categories = DefaultCategoryRows(TheList.id, 0)
  /\ items = {}
  /\ nextId = [lists |-> 1, categories |-> Len(DEFAULT_CATEGORIES), items |-> 0]
  /\ call = [k \in Callers |-> IdleCall]
  /\ channels = << JoinedChannel(Viewer) >>
  /\ \E i \in Arrangements(FeedItemRows, MaxItems),
        c \in Arrangements(FeedCategoryRows, MaxCustom) :
       view = [v \in Callers |->
                 IF v = Viewer
                   THEN [ClosedView EXCEPT !.mounted = TRUE, !.code = TheList.code,
                                           !.list = TheList, !.channelRef = Viewer,
                                           !.items = i,
                                           !.categories = << AltroRow >> \o c]
                   ELSE ClosedView]
  /\ calc = NoCalc

\* the channel hands a payload to the handler registered for its table
HandlePayload(payload) ==
  /\ view' = [view EXCEPT ![Viewer] = handleChange(@, payload)]
  /\ calc' = [NoCalc EXCEPT !.fn = "handleChange", !.payload = payload,
                            !.calls = Handled(payload), !.i = 1,
                            !.items = view[Viewer].items,
                            !.categories = view[Viewer].categories,
                            !.first = [items |-> view[Viewer].items,
                                       categories |-> view[Viewer].categories]]
  /\ UNCHANGED << lists, categories, items, nextId, rls, codeWidth, call, channels >>

\* the channel hands over the payload it handed over last, once more
HandlePayloadAgain ==
  /\ calc.fn = "handleChange" /\ calc.i = 1
  /\ view' = [view EXCEPT ![Viewer] = handleChange(@, calc.payload)]
  /\ calc' = [calc EXCEPT !.i = 2,
                          !.items = view[Viewer].items,
                          !.categories = view[Viewer].categories]
  /\ UNCHANGED << lists, categories, items, nextId, rls, codeWidth, call, channels >>

HasCalled(callback) ==
  \E n \in 1..Len(calc.calls) : calc.calls[n].callback = callback

\* CategoryManager.handleDeleteCategory on the m-th local category, a custom
\* one: deleteCategory has succeeded; the response and the payload of the
\* deletion are on their way.  calc keeps the categories of the render the
\* handler comes from and the payload.
CategoryDeleted(m) ==
  /\ m \in 1..Len(view[Viewer].categories)
  /\ ~view[Viewer].categories[m].is_default
  /\ calc' = [NoCalc EXCEPT !.fn = "deleteCategory",
                            !.payload = DeleteEvent("categories",
                                                    view[Viewer].categories[m]),
                            !.items = view[Viewer].items,
                            !.categories = view[Viewer].categories,
                            !.first = [items |-> view[Viewer].items,
                                       categories |-> view[Viewer].categories]]
  /\ UNCHANGED << lists, categories, items, nextId, rls, codeWidth, call,
                  channels, view >>

\* the response arrives: onCategoryDeleted(categoryId)
CategoryDeletedResponse ==
  /\ calc.fn = "deleteCategory" /\ ~HasCalled("handleCategoryDeleted")
  /\ view' = [view EXCEPT ![Viewer] =
       handleCategoryDeleted(@, calc.categories, calc.payload.old.id)]
  /\ calc' = [calc EXCEPT !.calls =
       Append(@, Called("handleCategoryDeleted", calc.payload.old))]
  /\ UNCHANGED << lists, categories, items, nextId, rls, codeWidth, call, channels >>

\* the channel hands over the payload of the deletion
CategoryDeletedPayload ==
  /\ calc.fn = "deleteCategory" /\ ~HasCalled("onCategoryDelete")
  /\ view' = [view EXCEPT ![Viewer] = handleChange(@, calc.payload)]
  /\ calc' = [calc EXCEPT !.calls = @ \o Handled(calc.payload)]
  /\ UNCHANGED << lists, categories, items, nextId, rls, codeWidth, call, channels >>

NextFeed ==
  \/ \E payload \in FeedPayloads : HandlePayload(payload)
  \/ HandlePayloadAgain
  \/ \E m \in 1..Len(view[Viewer].categories) : CategoryDeleted(m)
  \/ CategoryDeletedResponse
  \/ CategoryDeletedPayload

SpecFeed == InitFeed /\ [][NextFeed]_vars

(***************************************************************************)
(* Specification of the store of the two lists of InitViews: a caller       *)
(* creates a category B in either list, adds items to either list, and     *)
(* calls deleteCategory with the id of a category (or of none) and the id  *)
(* of either list, the store failing any call of deleteCategory.           *)
(***************************************************************************)
BothLists == { TheList, OtherList }

\* the ids a caller may pass to deleteCategory: those of the custom
\* categories, of an 'Altro', and of no category
CategoryIdInputs ==
  { c.id : c \in { r \in categories : ~r.is_default \/ r.name = Altro } }
    \cup { nextId.categories + 1 }

NextTwoLists ==
  \E k \in Alone :
    \/ /\ CustomInserted < MaxCustom
       /\ \E l \in BothLists : CreateCategory(k, l.id, << "B" >>)
    \/ CreateCategoryCheck(k, FALSE)
    \/ CreateCategoryOrder(k, FALSE)
    \/ CreateCategoryInsert(k, FALSE)
    \/ /\ nextId.items < MaxItems
       /\ \E l \in BothLists, name \in ItemNameInputs :
            AddItem(k, l.id, name, << "B" >>)
    \/ AddItemInsert(k, FALSE)
    \/ \E id \in CategoryIdInputs, l \in BothLists : DeleteCategory(k, id, l.id)
    \/ \E fail \in BOOLEAN : DeleteCategoryFetch(k, fail)
    \/ \E fail \in BOOLEAN : DeleteCategoryReassign(k, fail)
    \/ \E fail \in BOOLEAN : DeleteCategoryDelete(k, fail)
    \/ Return(k)

SpecTwoLists == InitViews /\ [][NextTwoLists]_vars

(***************************************************************************)
(* Specification of the categories of one list with a store that may fail  *)
(* any call: concurrent callers create and delete categories.              *)
(***************************************************************************)
NextCatsFailing ==
  \E k \in Callers :
    \/ /\ CustomInserted < MaxCustom
       /\ \E name \in CategoryNameInputs : CreateCategory(k, TheList.id, name)
    \/ \E fail \in BOOLEAN : CreateCategoryCheck(k, fail)
    \/ \E fail \in BOOLEAN : CreateCategoryOrder(k, fail)
    \/ \E fail \in BOOLEAN : CreateCategoryInsert(k, fail)
    \/ \E id \in DeletableInputs : DeleteCategory(k, id, TheList.id)
    \/ \E fail \in BOOLEAN : DeleteCategoryFetch(k, fail)
    \/ \E fail \in BOOLEAN : DeleteCategoryReassign(k, fail)
    \/ \E fail \in BOOLEAN : DeleteCategoryDelete(k, fail)
    \/ Return(k)

SpecCatsFailing == InitCats /\ [][NextCatsFailing]_vars

(***************************************************************************)
(* Claims about createList.                                                *)
(***************************************************************************)
CategoriesOf(listId) == { c \in categories : c.list_id = listId }

HasItsDefaults(listId) ==
  \A n \in 1..Len(DEFAULT_CATEGORIES) :
    \E c \in CategoriesOf(listId) :
      /\ c.name = DEFAULT_CATEGORIES[n].name
      /\ c.display_order = DEFAULT_CATEGORIES[n].display_order
      /\ c.is_default

\* C5: the six default categories are created atomically with the list: in
\* no reachable store state is there a list row without its six default
\* categories.
C5_DefaultsAtomicWithList == \A l \in lists : HasItsDefaults(l.id)

\* C6: when createList has surfaced the failure of the insert of the default
\* categories, the store holds no row for the list it had inserted and no
\* category for it.  Stated for the calls most favourable to the claim:
\* those on which no store call failed but as the schema and the policies
\* demand (the rollback's delete was not lost to a failure of the store).
C6_RollbackLeavesNoList ==
  \A k \in Callers :
    (/\ call[k].op = "createList" /\ call[k].pc = "done"
     /\ call[k].result = "DATABASE_ERROR:categories"
     /\ ~call[k].faulted)
    => /\ ~ListExists(call[k].row.id)
       /\ CategoriesOf(call[k].row.id) = {}

\* C7: with the store applying its schema and the policies of policies.sql
\* and not failing otherwise, a createList call whose list insert succeeded
\* returns the persisted list, and the store then holds exactly the six
\* default categories for it, all with is_default = true, with the fixed
\* names and the display orders 1 to 6.
C7_CreateListSeedsDefaultsUnderPolicies ==
  \A k \in Callers :
    (/\ rls /\ call[k].op = "createList" /\ call[k].pc = "done"
     /\ ~call[k].faulted /\ call[k].row # NoRow)
    => /\ call[k].result = "ok"
       /\ call[k].row \in lists
       /\ HasItsDefaults(call[k].row.id)
       /\ Cardinality(CategoriesOf(call[k].row.id)) = 6
       /\ \A c \in CategoriesOf(call[k].row.id) : c.is_default

\* the steps of caller k's createList, the store answering
CreateListStep(k) ==
  \/ \E code \in generateListCode : CreateListInsert(k, code, FALSE)
  \/ CreateListDefaults(k, FALSE)
  \/ CreateListRollback(k, FALSE)

\* C8: createList makes at most 5 list-insert attempts and, until it ends,
\* always has a next step to take; it is about to try again only when every
\* attempt so far ended in a uniqueness violation on code (any other insert
\* error ends the call at once), and when it gives up after 5 uniqueness
\* violations it has inserted no list and no category.
C8_CreateListBoundedRetries ==
  \A k \in Callers :
    call[k].op = "createList" =>
      /\ call[k].inserts <= 5
      /\ call[k].pc # "done" => ENABLED CreateListStep(k)
      /\ call[k].attempts <= call[k].inserts
      /\ call[k].inserts <= call[k].attempts + 1
      /\ call[k].pc = "insertList" =>
           (call[k].inserts = call[k].attempts /\ ~call[k].faulted)
      /\ call[k].result = "DATABASE_ERROR:list" =>
           (call[k].pc = "done" /\ call[k].row = NoRow)
      /\ call[k].result = "DATABASE_ERROR:code" =>
           /\ call[k].pc = "done"
           /\ call[k].attempts = 5 /\ call[k].inserts = 5
           /\ ~call[k].faulted
           /\ call[k].row = NoRow

C8_Witness ==
  \E k \in Callers :
    /\ call[k].op = "createList"
    /\ call[k].result = "DATABASE_ERROR:code"
    /\ lists # {}

(***************************************************************************)
(* Claims about the category store.                                        *)
(***************************************************************************)
SameCategoryName(a, b) == toLowerCase(trim(a)) = toLowerCase(trim(b))

\* C3: in every reachable store state, under any interleaving of
\* createCategory calls, no list holds two categories whose names are equal
\* after trimming and ignoring letter case.
C3_CategoryNamesUniquePerList ==
  \A a \in categories, b \in categories :
    (a.list_id = b.list_id /\ a.id # b.id) => ~SameCategoryName(a.name, b.name)

\* C4: every item that exists in the store when deleteCategory(c) returns
\* successfully has a category different from c's name, also when other
\* clients call addItem on the same list during the deletion.
C4_NoItemKeepsDeletedCategory ==
  [][ \A k \in Callers :
        (/\ call[k].op = "deleteCategory" /\ call[k].pc = "delete"
         /\ call'[k].pc = "done" /\ call'[k].result = "ok")
        => \A i \in items' :
             i.list_id = call[k].row.list_id => i.category # call[k].row.name
    ]_vars

(***************************************************************************)
(* Claims about the clients of a shared list.                              *)
(***************************************************************************)
ItemsOf(listId) == { i \in items : i.list_id = listId }

AsSet(rows) == { rows[n] : n \in 1..Len(rows) }

\* a client whose page holds a list and the channel of that list, joined
Subscribed(v) ==
  /\ view[v].mounted /\ view[v].list # NoRow /\ view[v].load = "idle"
  /\ view[v].channelRef # NoId
  /\ channels[view[v].channelRef].status = "joined"

DistinctIds(rows) ==
  \A n \in 1..Len(rows), m \in 1..Len(rows) : rows[n].id = rows[m].id => n = m

\* C1: once every store call has returned (and its response has been
\* handled by the client that made it) and every joined channel has handed
\* over every payload it was sent, the local items and the local categories
\* of each subscribed client are, as sets of rows, the store's items and
\* categories of the client's list.
C1_ClientsConvergeToStore ==
  Quiescent =>
    \A v \in Callers :
      Subscribed(v) =>
        /\ AsSet(view[v].items) = ItemsOf(view[v].list.id)
        /\ AsSet(view[v].categories) = CategoriesOf(view[v].list.id)

\* C2: in every reachable state of a client, no two local items have the
\* same id and no two local categories have the same id, whichever of the
\* response to the client's own addItem / createCategory and the feed's
\* echo of that insert arrives first.
C2_NoDuplicateLocalIds ==
  \A v \in Callers :
    /\ DistinctIds(view[v].items)
    /\ DistinctIds(view[v].categories)

\* C9: when the clients have called updateItemBought on the same item, also
\* concurrently and with different values, then once all the calls have
\* returned and every client has been handed every item-updated payload,
\* each client's local bought value of the item is the store's.
C9_LastWriteWinsAtEveryClient ==
  Quiescent =>
    \A v \in Callers : \A n \in 1..Len(view[v].items) :
      \A i \in items :
        i.id = view[v].items[n].id => view[v].items[n].bought = i.bought

(***************************************************************************)
(* Claims about the subscription of a page.                                *)
(***************************************************************************)
\* the channel id hands its next payload to its client in this step
Delivers(id) ==
  /\ channels[id].status = "joined" /\ channels[id].queue # << >>
  /\ channels'[id].queue = Tail(channels[id].queue)
  /\ channels'[id].received = channels[id].received

\* the page of client v is torn down in this step: closed, or its listId changed
TornDown(v) ==
  /\ view[v].mounted /\ view[v].list # NoRow
  /\ (~view'[v].mounted \/ view'[v].list # view[v].list)

\* C10: after a page is torn down (closed, or its listId changed) the channel
\* it had has been removed, once, and holds no payload; the hook holds no
\* channel but the one of the list the page now has; and the only payloads
\* ever handed to a page come from the channel the hook holds and are
\* changes of the list the page has: no payload of the old list changes the
\* local state after the teardown.
C10_TeardownReleasesChannel ==
  /\ [](\A id \in DOMAIN channels :
          LET ch == channels[id]
              vw == view[ch.view]
          IN /\ ch.status = "removed" =>
                  (ch.queue = << >> /\ ch.removed = 1 /\ vw.channelRef # id)
             /\ ch.status # "removed" =>
                  /\ ch.removed = 0
                  /\ vw.mounted /\ vw.channelRef = id
                  /\ vw.list.id = ch.listId
             /\ \A n \in 1..Len(ch.queue) : ch.queue[n].list_id = ch.listId)
  /\ [](\A v \in Callers :
          view[v].channelRef # NoId =>
            /\ view[v].channelRef \in DOMAIN channels
            /\ channels[view[v].channelRef].view = v)
  /\ [][ /\ \A id \in DOMAIN channels :
              Delivers(id) =>
                /\ view[channels[id].view].channelRef = id
                /\ Head(channels[id].queue).list_id
                     = view[channels[id].view].list.id
         /\ \A v \in Callers :
              TornDown(v) =>
                /\ view[v].channelRef # NoId
                /\ channels'[view[v].channelRef].status = "removed"
                /\ view'[v].channelRef # view[v].channelRef
       ]_vars

\* a page that had the channel of one list, joined and sent payloads, has
\* now another list and a joined channel for it; it still holds an item of
\* the old list, and the store holds a later item of the old list that
\* never reached the page
C10_Witness ==
  \E id \in DOMAIN channels :
    LET ch == channels[id]
        vw == view[ch.view]
    IN /\ ch.status = "removed" /\ ch.received > 0
       /\ vw.mounted /\ vw.list # NoRow /\ vw.list.id # ch.listId
       /\ vw.channelRef # NoId
       /\ channels[vw.channelRef].status = "joined"
       /\ \E n \in 1..Len(vw.items) : \E i \in ItemsOf(ch.listId) :
            /\ vw.items[n].list_id = ch.listId
            /\ i.id > vw.items[n].id
            /\ ~HasId(vw.items, i.id)

\* the channels client v's hook created and has not removed
LiveChannels(v) ==
  { id \in DOMAIN channels :
      channels[id].view = v /\ channels[id].status # "removed" }

\* C11: every channel the hook creates is removed exactly once, whatever the
\* order of listId changes, unmounts and unsubscribe() calls: no channel is
\* ever removed twice, a channel not yet removed is the one its mounted hook
\* holds (so its removal is still to come, at the next cleanup), and nothing
\* is left unremoved once the component is unmounted; a hook never has two
\* live channels; and a channel is only created by a render with a listId,
\* for that listId.
C11_ChannelRemovedExactlyOnce ==
  /\ [](\A id \in DOMAIN channels :
          /\ channels[id].removed <= 1
          /\ channels[id].status = "removed" <=> channels[id].removed = 1
          /\ channels[id].status # "removed" =>
               /\ view[channels[id].view].mounted
               /\ view[channels[id].view].channelRef = id
          /\ channels[id].listId # NoId)
  /\ [](\A v \in Callers :
          /\ Cardinality(LiveChannels(v)) <= 1
          /\ ~view[v].mounted => LiveChannels(v) = {})
  /\ [][ Len(channels') > Len(channels) =>
           /\ Len(channels') = Len(channels) + 1
           /\ LET ch == channels'[Len(channels')]
              IN /\ ch.removed = 0 /\ ch.status = "joining"
                 /\ ch.listId # NoId
                 /\ view'[ch.view].mounted
                 /\ view'[ch.view].list.id = ch.listId
                 /\ view'[ch.view].channelRef = Len(channels')
       ]_vars

\* a mounted hook that has a list and holds no channel, after unsubscribe():
\* the channel of its list and the channel of the list it had before have
\* each been removed
C11_Witness ==
  \E v \in Callers :
    /\ view[v].mounted /\ view[v].list # NoRow /\ view[v].channelRef = NoId
    /\ \E a \in DOMAIN channels, b \in DOMAIN channels :
         /\ channels[a].view = v /\ channels[b].view = v
         /\ channels[a].removed = 1 /\ channels[b].removed = 1
         /\ channels[a].listId = view[v].list.id
         /\ channels[b].listId # view[v].list.id

(***************************************************************************)
(* Claims about deleteCategory.                                            *)
(***************************************************************************)
\* C12: no operation deletes a default category: a deleteCategory call that
\* fetched a category with is_default = true ends at once with InvalidInput,
\* the step that rejects it changes neither categories nor items, no step of
\* any call removes or alters a default category, and the list keeps its six
\* defaults ("Altro" among them) in every state.
C12_DefaultCategoriesNeverDeleted ==
  /\ [](\A l \in lists : HasItsDefaults(l.id))
  /\ [](\A k \in Callers :
          (/\ call[k].op = "deleteCategory" /\ call[k].row # NoRow
           /\ call[k].row.is_default)
          => (call[k].pc = "done" /\ call[k].result = "INVALID_INPUT"))
  /\ [][ /\ \A c \in categories : c.is_default => c \in categories'
         /\ \A k \in Callers :
              (/\ call[k].op = "deleteCategory" /\ call[k].pc = "fetch"
               /\ call'[k] # call[k]
               /\ \E r \in categories : r.id = call[k].rowId /\ r.is_default)
              => /\ call'[k].pc = "done"
                 /\ call'[k].result = "INVALID_INPUT"
                 /\ categories' = categories
                 /\ items' = items
       ]_vars

\* a deleteCategory of "Altro" has been rejected on a list that holds an item
\* in "Altro", while another call is past the check, deleting a custom category
C12_Witness ==
  \E k \in Callers, j \in Callers :
    /\ call[k].op = "deleteCategory" /\ call[k].result = "INVALID_INPUT"
    /\ call[k].row.name = Altro
    /\ \E i \in items : i.category = Altro
    /\ call[j].op = "deleteCategory" /\ call[j].pc = "delete"

\* the items of the list whose category is the name, compared as stored
ItemsIn(listId, name) ==
  { i \in items : i.list_id = listId /\ i.category = name }

\* C13: with one caller and no store failure, a deleteCategory call on a
\* custom category sets the category of exactly the items of the list that
\* had its name to "Altro" and changes no other item, keeps the number of
\* items, then removes exactly the category's row and changes no other
\* category; its check changes nothing.
C13_DeleteCategoryReassignsItsItems ==
  /\ [](\A k \in Callers :
          (call[k].op = "deleteCategory" /\ call[k].pc = "delete")
          => /\ call[k].row \in categories /\ ~call[k].row.is_default
             /\ ItemsIn(call[k].listId, call[k].row.name) = {})
  /\ [][ \A k \in Callers :
           /\ (call[k].op = "deleteCategory" /\ call[k].pc = "fetch"
               /\ call'[k] # call[k])
              => (categories' = categories /\ items' = items)
           /\ (call[k].op = "deleteCategory" /\ call[k].pc = "reassign"
               /\ call'[k] # call[k])
              => /\ call'[k].pc = "delete"
                 /\ categories' = categories
                 /\ Cardinality(items') = Cardinality(items)
                 /\ items' =
                      { IF i \in ItemsIn(call[k].listId, call[k].row.name)
                          THEN [i EXCEPT !.category = Altro]
                          ELSE i : i \in items }
           /\ (call[k].op = "deleteCategory" /\ call[k].pc = "delete"
               /\ call'[k] # call[k])
              => /\ call'[k].pc = "done" /\ call'[k].result = "ok"
                 /\ categories' = categories \ {call[k].row}
                 /\ items' = items
       ]_vars

\* a deleteCategory has succeeded on a custom category, whose row is gone,
\* on a list with two items, both now in "Altro", and no custom category
C13_Witness ==
  \E k \in Callers :
    /\ call[k].op = "deleteCategory" /\ call[k].result = "ok"
    /\ call[k].row \notin categories
    /\ Cardinality(ItemsIn(call[k].listId, Altro)) >= 2
    /\ \A c \in categories : c.is_default

(***************************************************************************)
(* Claims about createCategory.                                            *)
(***************************************************************************)
CustomOrders(listId) ==
  { c.display_order : c \in { r \in categories :
                                r.list_id = listId /\ ~r.is_default } }

\* C14: with one caller, the display_order createCategory is about to insert
\* is the greatest display_order of the list's custom categories plus 1, and
\* 100 when the list has no custom category: the first custom category of a
\* freshly created list gets 100.
C14_CustomDisplayOrder ==
  \A k \in Callers :
    (call[k].op = "createCategory" /\ call[k].pc = "insert" /\ ~call[k].faulted)
    => call[k].nextOrder =
         IF CustomOrders(call[k].listId) = {} THEN FirstCustomOrder
         ELSE 1 + CHOOSE d \in CustomOrders(call[k].listId) :
                    \A e \in CustomOrders(call[k].listId) : e <= d

\* C15: with one caller and no store failure, createCategory ends with
\* DuplicateCategory, having inserted nothing, exactly when the list holds a
\* category whose name equals the given name after trimming and ignoring
\* letter case; otherwise it succeeds and the row it stored has the trimmed
\* name and is_default = false.
C15_DuplicateNamesRejected ==
  \A k \in Callers :
    (call[k].op = "createCategory" /\ call[k].pc = "done"
     /\ call[k].result # "INVALID_INPUT")
    => LET same == { c \in CategoriesOf(call[k].listId) :
                       c # call[k].row /\ SameCategoryName(c.name, call[k].name) }
       IN IF same # {}
            THEN call[k].result = "DUPLICATE_CATEGORY" /\ call[k].row = NoRow
            ELSE /\ call[k].result = "ok"
                 /\ call[k].row \in categories
                 /\ call[k].row.name = trim(call[k].name)
                 /\ call[k].row.is_default = FALSE

\* C16: when the store refuses the insert of createCategory because the list
\* already holds the name (another creator of the same name inserted after
\* this call's check had passed), the call ends with DuplicateCategory, the
\* error kind of the check.
C16_UniqueViolationIsDuplicate ==
  [][ \A k \in Callers :
        (/\ call[k].op = "createCategory" /\ call[k].pc = "insert"
         /\ call'[k].pc = "done"
         /\ CategoryNameTaken(call[k].listId, trim(call[k].name)))
        => call'[k].result = "DUPLICATE_CATEGORY"
    ]_vars

(***************************************************************************)
(* Claims about list codes.                                                *)
(***************************************************************************)
\* C17: in every store state no two lists have the same code, under any
\* interleaving of createList calls (whose generated codes may collide), and
\* a list keeps the code it was created with for as long as it exists.
C17_ListCodesUniqueAndImmutable ==
  /\ [](\A a \in lists, b \in lists : a.code = b.code => a = b)
  /\ [][ \A a \in lists, b \in lists' : a.id = b.id => a.code = b.code ]_vars

\* two lists with different codes, one of them made by a call whose first
\* code was already taken
C17_Witness ==
  /\ \E a \in lists, b \in lists : a.code # b.code
  /\ \E k \in Callers :
       /\ call[k].op = "createList" /\ call[k].attempts > 0
       /\ call[k].row \in lists

\* the lists whose code is a letter-case variant of the text
ListsOfCode(code) == { l \in lists : l.code = toUpperCase(code) }

\* C18: for an existing list with code C, getListByCode returns that list
\* for every letter-case variant of C (the store not failing).
C18_LookupIgnoresLetterCase ==
  \A k \in Callers :
    (/\ call[k].op = "getListByCode" /\ call[k].pc = "done"
     /\ ~call[k].faulted /\ ListsOfCode(call[k].code) # {})
    => /\ call[k].result = "ok"
       /\ call[k].row \in ListsOfCode(call[k].code)

\* C19: getListByCode returns null without a store lookup for a malformed
\* code; for a well-formed code it makes one lookup and returns null when
\* no row matches, the row when one matches, and raises a store error, never
\* null, when the store fails otherwise; no step of it changes the store.
C19_LookupOutcomes ==
  /\ [](\A k \in Callers :
          (call[k].op = "getListByCode" /\ call[k].pc = "done")
          => LET wellFormed == isValidListCodeFormat(call[k].code)
             IN /\ ~wellFormed =>
                     (/\ call[k].result = "null" /\ call[k].lookups = 0
                      /\ call[k].row = NoRow)
                /\ wellFormed => call[k].lookups = 1
                /\ (wellFormed /\ call[k].faulted) =>
                     (call[k].result = "DATABASE_ERROR" /\ call[k].row = NoRow)
                /\ (wellFormed /\ ~call[k].faulted) =>
                     IF \E l \in lists : l.code = call[k].code
                       THEN /\ call[k].result = "ok"
                            /\ call[k].row \in lists
                            /\ call[k].row.code = call[k].code
                       ELSE call[k].result = "null" /\ call[k].row = NoRow)
  /\ [][ (\E k \in Callers :
            call[k].op = "getListByCode" \/ call'[k].op = "getListByCode")
         => /\ lists' = lists /\ categories' = categories /\ items' = items
            /\ nextId' = nextId
       ]_vars

\* one lookup ended in null for a malformed code without a store lookup,
\* while another, of a well-formed code, ended in a store error
C19_Witness ==
  \E k \in Callers, j \in Callers :
    /\ call[k].op = "getListByCode" /\ call[k].pc = "done"
    /\ call[k].result = "null" /\ call[k].lookups = 0
    /\ call[j].op = "getListByCode" /\ call[j].pc = "done"
    /\ call[j].result = "DATABASE_ERROR" /\ call[j].lookups = 1

(***************************************************************************)
(* Claims about addItem.                                                   *)
(***************************************************************************)
\* C20: the step in which an addItem call succeeds adds exactly one item,
\* with a new id, bought = false, the trimmed name and the category exactly
\* as given, returns that row, and changes no other row; a call succeeds
\* only with a name and a category that are not blank.
C20_AddItemCreatesOneItem ==
  /\ [](\A k \in Callers :
          (call[k].op = "addItem" /\ call[k].result = "ok")
          => /\ Len(trim(call[k].name)) > 0
             /\ Len(trim(call[k].category)) > 0)
  /\ [][ \A k \in Callers :
           (/\ call[k].op = "addItem" /\ call[k].pc = "insert"
            /\ call'[k].pc = "done" /\ call'[k].result = "ok")
           => /\ call'[k].row \notin items
              /\ \A i \in items : i.id # call'[k].row.id
              /\ items' = items \cup {call'[k].row}
              /\ call'[k].row.list_id = call[k].listId
              /\ call'[k].row.bought = FALSE
              /\ call'[k].row.name = trim(call[k].name)
              /\ call'[k].row.category = call[k].category
              /\ categories' = categories
              /\ lists' = lists
       ]_vars

\* an addItem given a name and a category with blanks around them has
\* succeeded next to an item that is marked bought: its row has the name
\* without the blanks and the category with them, a name of no category
C20_Witness ==
  \E k \in Callers :
    /\ call[k].op = "addItem" /\ call[k].result = "ok"
    /\ call[k].row \in items
    /\ call[k].name # call[k].row.name
    /\ trim(call[k].row.category) # call[k].row.category
    /\ ~\E c \in categories : c.name = call[k].row.category
    /\ \E i \in items : i.bought

(***************************************************************************)
(* Claims about the validation of names.                                   *)
(***************************************************************************)
IsBlank(s) == \A n \in 1..Len(s) : IsWhiteSpace(s[n])

\* the name that the call of k gave is refused, or is not
Refused(k) == call[k].pc = "done" /\ call[k].result = "INVALID_INPUT"

\* C21: an addItem whose name or category is empty or blank, and a
\* createCategory whose name is empty or blank, has failed with InvalidInput
\* as soon as it is called, having made no store call, and the step that
\* calls it changes nothing in the store; a call whose name (and, for
\* addItem, category) holds a character that is not a blank is not refused
\* as invalid input.
C21_BlankNamesRefusedBeforeStore ==
  /\ [](\A k \in Callers :
          /\ call[k].op = "addItem"
             => (Refused(k) <=> (IsBlank(call[k].name) \/ IsBlank(call[k].category)))
          /\ call[k].op = "createCategory"
             => ((IsBlank(call[k].name) => Refused(k))
                 /\ (~IsBlank(call[k].name) => call[k].result # "INVALID_INPUT"))
          /\ Refused(k) => (~call[k].faulted /\ call[k].row = NoRow))
  /\ [][ \A k \in Callers :
           (call[k].op = "idle" /\ call'[k].result = "INVALID_INPUT")
           => /\ lists' = lists /\ categories' = categories /\ items' = items
              /\ nextId' = nextId /\ channels' = channels
       ]_vars

\* an addItem with a blank category, and a createCategory with an empty
\* name, are refused while a category and an item that passed are stored
C21_Witness ==
  /\ \E k \in Callers :
       /\ call[k].op = "addItem" /\ Refused(k)
       /\ ~IsBlank(call[k].name) /\ IsBlank(call[k].category)
  /\ \E k \in Callers :
       /\ call[k].op = "createCategory" /\ Refused(k) /\ call[k].name = << >>
  /\ \E c \in categories : ~c.is_default
  /\ items # {}

(***************************************************************************)
(* Claims about updateItemBought and deleteItem.                           *)
(***************************************************************************)
\* the step in which the store applies the updateItemBought of caller k
BoughtApplied(k) ==
  /\ call[k].op = "updateItemBought" /\ call[k].pc = "update"
  /\ call'[k].pc = "done" /\ call'[k].result = "ok"

\* the callers whose updateItemBought on item id has been applied
AppliedOn(id) ==
  { k \in Callers : /\ call[k].op = "updateItemBought" /\ call[k].rowId = id
                    /\ call[k].pc = "done" /\ call[k].result = "ok" }

\* C22: the step that applies updateItemBought(id, b) to an existing item
\* leaves that item with bought = b whatever it was before, and leaves the
\* store as it is when the item already has bought = b (a second application
\* equals the first); when every caller's last call was an applied update of
\* the same item, the item holds the value of one of them, the last applied.
C22_UpdateItemBoughtIsAbsoluteSet ==
  /\ [][ \A k \in Callers : BoughtApplied(k) =>
           \A i \in items : i.id = call[k].rowId =>
             /\ \E j \in items' : j.id = i.id /\ j.bought = call[k].bought
             /\ \A j \in items' : j.id = i.id => j.bought = call[k].bought
             /\ i.bought = call[k].bought => items' = items
       ]_vars
  /\ [](\A i \in items :
          AppliedOn(i.id) = Callers
          => \E k \in Callers : i.bought = call[k].bought)

\* two callers have had updates of one item applied, to bought and to not
\* bought, and the item is not bought: the later value replaced the earlier
C22_Witness ==
  \E i \in items :
    /\ AppliedOn(i.id) = Callers
    /\ \E k \in Callers : call[k].bought
    /\ \E k \in Callers : ~call[k].bought
    /\ ~i.bought
    /\ \E j \in items : j.id # i.id /\ j.bought

(***************************************************************************)
(* Claims about what changes an item.                                      *)
(***************************************************************************)
\* the step in which the store runs the update of an updateItemBought on id
BoughtUpdateOf(id) ==
  \E k \in Callers :
    /\ call[k].op = "updateItemBought" /\ call[k].pc = "update"
    /\ call[k].rowId = id /\ call'[k].pc = "done"

\* the step in which a deleteCategory reassigns the items of category name
ReassignmentOf(name) ==
  \E k \in Callers :
    /\ call[k].op = "deleteCategory" /\ call[k].pc = "reassign"
    /\ call[k].row.name = name /\ call'[k].pc = "delete"

\* C23: in every step of the store, an item that stays keeps its list_id,
\* name and created_at, and no two items share an id; its bought changes
\* only in the update of an updateItemBought addressed to it, a step that
\* changes nothing else of that item, no other item, no category and no
\* list; its category changes only in the reassignment of a deleteCategory
\* of its category, which moves it to "Altro" and leaves its bought.
C23_ItemFieldsChangeOnlyByTheirOperation ==
  /\ [](\A i, j \in items : i.id = j.id => i = j)
  /\ [][ \A i \in items : \A j \in items' : j.id = i.id =>
           /\ j.list_id = i.list_id
           /\ j.name = i.name
           /\ j.created_at = i.created_at
           /\ j.bought # i.bought
              => /\ BoughtUpdateOf(i.id)
                 /\ j.category = i.category
                 /\ items' \ {j} = items \ {i}
                 /\ categories' = categories /\ lists' = lists
           /\ j.category # i.category
              => /\ ReassignmentOf(i.category)
                 /\ j.category = Altro
                 /\ j.bought = i.bought
       ]_vars
  /\ [][ \A k \in Callers :
           (call[k].op = "updateItemBought" /\ call[k].pc = "update"
            /\ call'[k].pc = "done")
           => /\ \A i \in items : i.id # call[k].rowId => i \in items'
              /\ \A j \in items' : j.id # call[k].rowId => j \in items
              /\ \A i \in items : i.id = call[k].rowId
                   => [i EXCEPT !.bought = call[k].bought] \in items'
       ]_vars

\* an addItem returned an item of a custom category, and the item is now
\* an item of "Altro", the deleteCategory that moved it having ended, next
\* to an item that an updateItemBought has marked bought
C23_Witness ==
  \E k \in Callers : \E i \in items :
    /\ call[k].op = "addItem" /\ call[k].result = "ok"
    /\ i.id = call[k].row.id
    /\ call[k].row.category # Altro
    /\ i.category = Altro /\ ~i.bought
    /\ \E j \in Alone : call[j].op = "deleteCategory" /\ call[j].result = "ok"
    /\ \E j \in items : j.id # i.id /\ j.bought

\* the step in which the store runs the delete of the deleteItem of caller k
DeleteItemStep(k) ==
  /\ call[k].op = "deleteItem" /\ call[k].pc = "delete"
  /\ call'[k].pc = "done"

\* C24: the delete of a deleteItem whose id matches no item returns success
\* whenever the store answers, and leaves every row as it was; the delete of
\* a deleteItem on an existing id that returns success removes that item and
\* no other row; a delete that fails removes nothing.
C24_DeleteItemRemovesExactlyItsItem ==
  [][ \A k \in Callers : DeleteItemStep(k) =>
        LET addressed == { i \in items : i.id = call[k].rowId } IN
        /\ categories' = categories /\ lists' = lists
        /\ call'[k].result \in { "ok", "DATABASE_ERROR:delete" }
        /\ ~call'[k].faulted => call'[k].result = "ok"
        /\ addressed = {} => items' = items
        /\ call'[k].result = "ok" => items' = items \ addressed
        /\ call'[k].result # "ok" => items' = items
        /\ Cardinality(addressed) <= 1
    ]_vars

\* a deleteItem on an id the store never gave out has returned success, and
\* so has a deleteItem on the id of an item that is gone, next to an item
\* that is still stored
C24_Witness ==
  /\ \E k \in Callers :
       /\ call[k].op = "deleteItem" /\ call[k].result = "ok"
       /\ call[k].rowId > nextId.items
  /\ \E k \in Callers :
       /\ call[k].op = "deleteItem" /\ call[k].result = "ok"
       /\ call[k].rowId <= nextId.items
       /\ \A i \in items : i.id # call[k].rowId
  /\ items # {}

(***************************************************************************)
(* Claims about the grouping and the order of the display.                 *)
(***************************************************************************)
Occurrences(s, x) == Cardinality({ n \in 1..Len(s) : s[n] = x })

IsPermutation(s, t) ==
  /\ Len(s) = Len(t)
  /\ \A n \in 1..Len(s) : Occurrences(s, s[n]) = Occurrences(t, s[n])

\* the items of the groups, one group after the other
RECURSIVE GroupedItems(_)
GroupedItems(groups) ==
  IF groups = << >> THEN << >>
  ELSE Head(groups).items \o GroupedItems(Tail(groups))

\* C25: the items of the groups that groupItemsByCategory returns, one
\* group after the other, are a permutation of the items it is given: no
\* item is lost and none is in two groups.
C25_EveryItemInExactlyOneGroup ==
  calc.fn = "groupItemsByCategory"
  => IsPermutation(GroupedItems(calc.groups), calc.items)

\* C26: groupItemsByCategory returns no group without items, every item of
\* a group names the category of the group, and every category given that
\* some item names is the category of a group.
C26_GroupsAreTheCategoriesWithItems ==
  calc.fn = "groupItemsByCategory"
  => /\ \A g \in 1..Len(calc.groups) :
          /\ Len(calc.groups[g].items) > 0
          /\ \A n \in 1..Len(calc.groups[g].items) :
               calc.groups[g].items[n].category = calc.groups[g].category.name
     /\ \A m \in 1..Len(calc.categories) :
          (\E n \in 1..Len(calc.items) :
             calc.items[n].category = calc.categories[m].name)
          => \E g \in 1..Len(calc.groups) :
               calc.groups[g].category = calc.categories[m]

\* items of two categories are grouped, a third category given has no item
\* and is no group
C26_Witness ==
  /\ calc.fn = "groupItemsByCategory"
  /\ Len(calc.groups) = 2
  /\ Len(calc.categories) = 3
  /\ Len(calc.items) = 3
  /\ IsPermutation(GroupedItems(calc.groups), calc.items)

\* a is not after b in the alphabet, the case of the letters left aside
NotAfterInAlphabet(a, b) ==
  LET SameLetters(k) ==
        \A n \in 1..k : toLowerChar(a[n]) = toLowerChar(b[n])
  IN \/ Len(a) <= Len(b) /\ SameLetters(Len(a))
     \/ \E k \in 1..Len(a) :
          /\ k <= Len(b) /\ SameLetters(k - 1)
          /\ LetterRank(a[k]) < LetterRank(b[k])

\* default categories first, by display_order, then the custom ones by name
InDisplayOrder(s) ==
  \A m, n \in 1..Len(s) : m < n =>
    /\ s[n].is_default => s[m].is_default
    /\ (s[m].is_default /\ s[n].is_default)
       => s[m].display_order <= s[n].display_order
    /\ (~s[m].is_default /\ ~s[n].is_default)
       => NotAfterInAlphabet(s[m].name, s[n].name)

\* C27: sortCategories returns a permutation of the categories it is given,
\* the default ones first in non-decreasing display_order, then the custom
\* ones in alphabetical order of name, and leaves the array it is given as
\* it was; the groups of groupItemsByCategory are in that order.
C27_CategoriesInDisplayOrder ==
  /\ [](calc.fn = "sortCategories"
        => /\ IsPermutation(calc.sorted, calc.categories)
           /\ InDisplayOrder(calc.sorted))
  /\ [](calc.fn = "groupItemsByCategory"
        => InDisplayOrder([g \in 1..Len(calc.groups) |-> calc.groups[g].category]))
  /\ [][calc'.fn = "sortCategories" => calc'.categories = calc.categories]_vars

\* the custom categories were given before a default one, "B" before "a":
\* sortCategories returns the default one, then "a", then "B"
C27_Witness ==
  /\ calc.fn = "sortCategories"
  /\ Len(calc.sorted) = 3
  /\ ~calc.categories[1].is_default /\ ~calc.categories[2].is_default
  /\ calc.categories[3].is_default
  /\ calc.sorted[1].is_default
  /\ calc.sorted[2] = calc.categories[2]
  /\ calc.sorted[3] = calc.categories[1]

\* C28: sortItemsWithinCategory returns a permutation of the items it is
\* given in which every item not bought is before every bought one and,
\* among the items of one bought state, created_at does not decrease, items
\* of the same created_at keeping the order they were given in; the array it
\* is given is left as it was.
C28_ItemsSortedUnboughtFirstByCreation ==
  /\ [](calc.fn = "sortItemsWithinCategory"
        => /\ IsPermutation(calc.sorted, calc.items)
           /\ \A m, n \in 1..Len(calc.sorted) : m < n =>
                /\ calc.sorted[n].bought \/ ~calc.sorted[m].bought
                /\ calc.sorted[m].bought = calc.sorted[n].bought
                   => /\ calc.sorted[m].created_at <= calc.sorted[n].created_at
                      /\ calc.sorted[m].created_at = calc.sorted[n].created_at
                         => calc.sorted[m].id < calc.sorted[n].id)
  /\ [][calc'.fn = "sortItemsWithinCategory" => calc'.items = calc.items]_vars

(***************************************************************************)
(* Claims about the form of list codes.                                    *)
(***************************************************************************)
CodeAlphabet ==
  { "A", "B", "C", "D", "E", "F", "G", "H", "I", "J", "K", "L", "M",
    "N", "O", "P", "Q", "R", "S", "T", "U", "V", "W", "X", "Y", "Z",
    "0", "1", "2", "3", "4", "5", "6", "7", "8", "9" }

\* "GRO-" and exactly 7 characters of A-Z and 0-9
HasCodeForm(t) ==
  /\ Len(t) = 11
  /\ t[1] = "G" /\ t[2] = "R" /\ t[3] = "O" /\ t[4] = "-"
  /\ \A n \in 5..11 : t[n] \in CodeAlphabet

\* C29: the code generateListCode returns is "GRO-" and exactly 7
\* characters of A-Z and 0-9, and isValidListCodeFormat accepts it;
\* isValidListCodeFormat accepts a text exactly when it has that form: it
\* rejects lower-case variants, other prefixes, and suffixes of other lengths.
C29_GeneratedCodesAreTheValidCodes ==
  /\ (calc.fn = "generateListCode" /\ calc.i = CodeSuffixLen)
     => HasCodeForm(calc.text)
  /\ calc.fn = "isValidListCodeFormat"
     => /\ calc.valid <=> HasCodeForm(calc.text)
        /\ calc.generated => calc.valid

\* a generated code of letters and digits has been accepted
C29_Witness ==
  /\ calc.fn = "isValidListCodeFormat" /\ calc.generated /\ calc.valid
  /\ \E n \in 5..Len(calc.text) : calc.text[n] \in Digits
  /\ \E n \in 5..Len(calc.text) : calc.text[n] \notin Digits
  /\ calc.text[5] # calc.text[6]

(***************************************************************************)
(* Claims about the serialization of items.                                *)
(***************************************************************************)
SameItem(a, b) ==
  /\ a.id = b.id
  /\ a.list_id = b.list_id
  /\ a.name = b.name
  /\ a.category = b.category
  /\ a.bought = b.bought
  /\ a.created_at = b.created_at

\* C30: deserializeItem of the text serializeItem gives for an item returns
\* an item equal to it in id, list_id, name, category, bought and
\* created_at; deserializeItems of the text serializeItems gives for an
\* array of items returns an array of the same length whose nth item equals
\* the nth item given, in every field.
C30_SerializationRoundTrip ==
  /\ calc.fn = "deserializeItem"
     => ~calc.thrown /\ SameItem(calc.back, calc.item)
  /\ calc.fn = "deserializeItems"
     => /\ ~calc.thrown
        /\ Len(calc.backs) = Len(calc.items)
        /\ \A n \in 1..Len(calc.items) : SameItem(calc.backs[n], calc.items[n])

\* an array of different items, one bought and one not, with a quote and a
\* backslash in a name, has been serialized and deserialized
C30_Witness ==
  /\ calc.fn = "deserializeItems"
  /\ Len(calc.items) >= 2
  /\ calc.items[1].bought /\ ~calc.items[2].bought
  /\ calc.items[1].name # calc.items[2].name
  /\ \E n \in 1..Len(calc.items[2].name) : calc.items[2].name[n] = "\""
  /\ \E n \in 1..Len(calc.items[2].name) : calc.items[2].name[n] = "\\"
  /\ Len(calc.text) > Len(calc.items[1].name) + Len(calc.items[2].name)

(***************************************************************************)
(* Claims about the feed callbacks of ListDashboard.                       *)
(***************************************************************************)
\* the callback the payload handled last has called, if it is one
FedBy(callback) ==
  /\ calc.fn = "handleChange"
  /\ calc.calls # << >>
  /\ calc.calls[1].callback = callback

FedRow == calc.calls[1].row

\* after is before with every row of the id of row replaced by row, each at
\* its position, and nothing else changed
ReplacedInPlace(before, after, row) ==
  /\ Len(after) = Len(before)
  /\ \A n \in 1..Len(before) :
       after[n] = IF before[n].id = row.id THEN row ELSE before[n]

NoRowOfId(rows, id) == \A n \in 1..Len(rows) : rows[n].id # id

\* C31: an item-updated (category-updated) event replaces the local item
\* (category) of the same id at its position and changes no other row; when
\* no local row has the id of an item-updated, item-deleted, category-updated
\* or category-deleted event, the local rows of that kind stay as they were.
C31_UpdateReplacesInPlaceAndAbsentIsNoOp ==
  /\ FedBy("onItemUpdate") =>
       ReplacedInPlace(calc.items, view[Viewer].items, FedRow)
  /\ FedBy("onCategoryUpdate") =>
       ReplacedInPlace(calc.categories, view[Viewer].categories, FedRow)
  /\ (FedBy("onItemUpdate") \/ FedBy("onItemDelete"))
       /\ NoRowOfId(calc.items, FedRow.id)
       => view[Viewer].items = calc.items
  /\ (FedBy("onCategoryUpdate") \/ FedBy("onCategoryDelete"))
       /\ NoRowOfId(calc.categories, FedRow.id)
       => view[Viewer].categories = calc.categories

\* an item-updated event has replaced one of two local items, and the other
\* item is where and as it was
C31_Witness ==
  /\ FedBy("onItemUpdate")
  /\ Len(calc.items) = 2
  /\ calc.items[1].id # FedRow.id
  /\ calc.items[2].id = FedRow.id /\ calc.items[2] # FedRow
  /\ view[Viewer].items = << calc.items[1], FedRow >>

\* the payload handled last has been handled twice in a row
FedTwice == calc.fn = "handleChange" /\ calc.i = 2

\* C32: a feed event delivered twice in a row, whichever of the six kinds it
\* is, leaves the local items and categories as the first delivery left them.
C32_RedeliveryChangesNothing ==
  FedTwice =>
    /\ view[Viewer].items = calc.items
    /\ view[Viewer].categories = calc.categories

\* an item-inserted event was delivered twice to a dashboard that did not
\* have the item: the first delivery added it, and it is there once
C32_Witness ==
  /\ FedTwice
  /\ calc.calls[1].callback = "onItemInsert"
  /\ NoRowOfId(calc.first.items, FedRow.id)
  /\ view[Viewer].items = Append(calc.first.items, FedRow)

\* C33: a category-deleted event removes the local categories of its id and
\* keeps the others in their order; the items are as many as before, each
\* with its id, name and bought (and list and creation time), the category
\* of an item being 'Altro' if it was the deleted category's name and what
\* it was otherwise.
C33_CategoryDeletedReassignsItsItemsOnly ==
  FedBy("onCategoryDelete") =>
    /\ view[Viewer].categories =
         SelectSeq(calc.categories, LAMBDA c : c.id # FedRow.id)
    /\ Len(view[Viewer].items) = Len(calc.items)
    /\ \A n \in 1..Len(calc.items) :
         LET was == calc.items[n]
             is == view[Viewer].items[n]
         IN /\ is.id = was.id /\ is.name = was.name /\ is.bought = was.bought
            /\ is.list_id = was.list_id /\ is.created_at = was.created_at
            /\ is.category = IF was.category = FedRow.name THEN Altro
                             ELSE was.category

\* the event of the deletion of category B reached a dashboard that had the
\* category, an item of it and an item of 'Altro': the first item is now of
\* 'Altro', the second is as it was, the category is gone
C33_Witness ==
  /\ FedBy("onCategoryDelete") /\ FedRow.name = << "B" >>
  /\ \E n \in 1..Len(calc.categories) : calc.categories[n].id = FedRow.id
  /\ Len(calc.items) = 2
  /\ calc.items[1].category = << "B" >> /\ calc.items[2].category = Altro
  /\ calc.items[1].id # calc.items[2].id
  /\ view[Viewer].items[1].category = Altro
  /\ view[Viewer].items[2] = calc.items[2]
  /\ NoRowOfId(view[Viewer].categories, FedRow.id)

ItemCallbacks == { "onItemInsert", "onItemUpdate", "onItemDelete" }

CategoryCallbacks == { "onCategoryInsert", "onCategoryUpdate", "onCategoryDelete" }

\* the callback of a table and an event type
CallbackOf(table, eventType) ==
  IF table = "items"
    THEN CASE eventType = "INSERT" -> "onItemInsert"
           [] eventType = "UPDATE" -> "onItemUpdate"
           [] eventType = "DELETE" -> "onItemDelete"
    ELSE CASE eventType = "INSERT" -> "onCategoryInsert"
           [] eventType = "UPDATE" -> "onCategoryUpdate"
           [] eventType = "DELETE" -> "onCategoryDelete"

\* C34: a notification triggers at most one callback; the one it triggers is
\* that of its table and event type, called with the new row for INSERT and
\* UPDATE and with the prior row for DELETE; a notification of items triggers
\* no category callback and a notification of categories no item callback.
C34_OneCallbackPerNotification ==
  calc.fn = "handleChange" =>
    /\ Len(calc.calls) <= 1
    /\ \A n \in 1..Len(calc.calls) :
         /\ calc.calls[n].callback =
              CallbackOf(calc.payload.table, calc.payload.eventType)
         /\ calc.calls[n].row =
              IF calc.payload.eventType = "DELETE" THEN calc.payload.old
              ELSE calc.payload.new
         /\ calc.payload.table = "items" =>
              calc.calls[n].callback \in ItemCallbacks
         /\ calc.payload.table = "categories" =>
              calc.calls[n].callback \in CategoryCallbacks

\* an UPDATE of an item, whose prior row differs from the new one, has
\* triggered onItemUpdate with the new row, and nothing else
C34_Witness ==
  /\ calc.fn = "handleChange"
  /\ calc.payload.table = "items" /\ calc.payload.eventType = "UPDATE"
  /\ calc.payload.old # calc.payload.new
  /\ calc.calls = << [callback |-> "onItemUpdate", row |-> calc.payload.new] >>

(***************************************************************************)
(* Claims about the store calls of deleteCategory.                         *)
(***************************************************************************)
\* the deleteCategory of caller k ends in this step with result
DeleteCategoryEndsWith(k, result) ==
  /\ call[k].op = "deleteCategory" /\ call[k].pc # "done"
  /\ call'[k].pc = "done" /\ call'[k].result = result

DeleteCategoryErrors ==
  { "DATABASE_ERROR:fetch", "DATABASE_ERROR:reassign", "DATABASE_ERROR:delete" }

\* C35: a store call of deleteCategory that fails ends the call with an
\* error and the call does nothing after it; a failed fetch (store error or
\* no such category) has changed nothing; a failed reassignment leaves items
\* and categories as they were, the category row there; a failed delete
\* leaves the category row there and the items reassigned.
C35_DeleteCategoryStopsAtTheFailure ==
  /\ [](\A k \in Callers :
          call[k].op = "deleteCategory" /\ call[k].faulted =>
            call[k].pc = "done" /\ call[k].result \in DeleteCategoryErrors)
  /\ [][\A k \in Callers :
          /\ call[k].op = "deleteCategory" /\ call[k].pc = "done" =>
               UNCHANGED << categories, items >>
          /\ DeleteCategoryEndsWith(k, "DATABASE_ERROR:fetch") =>
               call[k].pc = "fetch" /\ UNCHANGED << categories, items >>
          /\ DeleteCategoryEndsWith(k, "DATABASE_ERROR:reassign") =>
               /\ UNCHANGED << categories, items >>
               /\ call[k].row \in categories'
          /\ DeleteCategoryEndsWith(k, "DATABASE_ERROR:delete") =>
               /\ UNCHANGED << categories, items >>
               /\ call[k].row \in categories'
               /\ \A i \in items' :
                    i.list_id = call[k].listId => i.category # call[k].row.name
      ]_vars

\* the delete of a category failed after the reassignment of an item of its
\* list: the call ended with the error, the item is of 'Altro', the category
\* is in the store
C35_Witness ==
  \E k \in Callers :
    /\ call[k].op = "deleteCategory" /\ call[k].pc = "done"
    /\ call[k].result = "DATABASE_ERROR:delete" /\ call[k].faulted
    /\ call[k].row \in categories /\ call[k].row.list_id = call[k].listId
    /\ \E i \in items : i.list_id = call[k].listId /\ i.category = Altro

\* the rows of rows that are not of the list listId
RowsOfOtherLists(rows, listId) == { r \in rows : r.list_id # listId }

\* C39: the store calls of deleteCategory(categoryId, listId) change rows of
\* the list that owns the category only: the items and the categories of
\* every other list are after each step what they were before it, whatever
\* the listId passed.
C39_DeleteCategoryTouchesTheOwningListOnly ==
  [][\A k \in Callers :
       call[k].op = "deleteCategory" /\ call[k].pc \in { "reassign", "delete" } =>
         LET owner == call[k].row.list_id IN
         /\ RowsOfOtherLists(items', owner) = RowsOfOtherLists(items, owner)
         /\ RowsOfOtherLists(categories', owner) =
              RowsOfOtherLists(categories, owner)
    ]_vars

(***************************************************************************)
(* Claims about the display_order of categories.                           *)
(***************************************************************************)
\* in rows no custom category comes before a default one, and the default
\* ones are in display_order
DefaultsFirstInOrder(rows) ==
  \A m, n \in 1..Len(rows) :
    m < n =>
      /\ rows[n].is_default => rows[m].is_default
      /\ rows[m].is_default /\ rows[n].is_default =>
           rows[m].display_order < rows[n].display_order

\* C36: in every state of the store, a custom category of a list has a
\* display_order greater than that of every default category of the list,
\* and getCategories returns the default categories, in display_order,
\* before every custom one, whatever createCategory and deleteCategory calls
\* were made.
C36_CustomCategoriesComeAfterDefaults ==
  \A l \in lists :
    /\ \A c, d \in categories :
         c.list_id = l.id /\ d.list_id = l.id /\ ~c.is_default /\ d.is_default
           => c.display_order > d.display_order
    /\ DefaultsFirstInOrder(getCategories(l.id))

\* a second custom category was created after the first one was deleted, and
\* has the display_order the first one had; getCategories returns it last
C36_Witness ==
  /\ Len(getCategories(TheList.id)) = Len(DEFAULT_CATEGORIES) + 1
  /\ LET last == getCategories(TheList.id)[Len(DEFAULT_CATEGORIES) + 1] IN
     /\ ~last.is_default
     /\ last.id = Len(DEFAULT_CATEGORIES) + 2
     /\ last.display_order = Len(DEFAULT_CATEGORIES) + 1

(***************************************************************************)
(* Claims about deletions and late responses at a dashboard.               *)
(***************************************************************************)
\* the item id was inserted into the store and has been deleted from it, and
\* the channel of client v, joined all along, has handed over the
\* item-deleted payload it was sent for it: v has applied the event
AppliedItemDeleted(v, id) ==
  /\ id \in 1..nextId.items
  /\ \A i \in items : i.id # id
  /\ channels[v].status = "joined"
  /\ \A n \in 1..Len(channels[v].queue) :
       LET payload == channels[v].queue[n] IN
       ~(payload.table = "items" /\ payload.eventType = "DELETE"
           /\ payload.old.id = id)

\* C37: from the moment a client has applied the item-deleted event of an
\* item (a moment after which the item stays deleted, ids being given once),
\* no local item of the client has the item's id, whatever responses of
\* addItem or updateItemBought and whatever payloads arrive later.
C37_DeletedItemNeverReappears ==
  \A v \in Callers : \A id \in 1..MaxItems :
    AppliedItemDeleted(v, id) => ~HasId(view[v].items, id)

(***************************************************************************)
(* Claims about the loading of a page.                                     *)
(***************************************************************************)
\* the page of client v has finished loading its list, its channel is live
\* and has handed over every payload, and no store call is in flight
LoadedAndQuiescent(v) ==
  /\ Subscribed(v) /\ ~view[v].loading /\ view[v].error = ""
  /\ channels[view[v].channelRef].queue = << >>
  /\ \A k \in Callers : call[k].op = "idle"

\* C38: once a page has finished loading and its feed is quiescent, every
\* item committed to the store for the page's list is among the local items,
\* also an item committed while the page was being opened (after the
\* snapshot was read and before the channel was live, or handed over before
\* the snapshot was installed).
C38_LoadLosesNoCommittedItem ==
  \A v \in Callers :
    LoadedAndQuiescent(v) =>
      \A i \in items :
        i.list_id = view[v].list.id => HasId(view[v].items, i.id)

(***************************************************************************)
(* Claims about the deletion of a category at the client that asked for it.*)
(***************************************************************************)
\* what a viewer holding the state of calc.first has after the payload
ViewerAfterDeletion ==
  onCategoryDelete([items |-> calc.first.items,
                    categories |-> calc.first.categories], calc.payload.old)

\* C40: at the client that deleted a category, after handleCategoryDeleted
\* alone, after the category-deleted payload alone, and after both in either
\* order, the local items and categories are those a viewer with the same
\* local state has after the payload.
C40_OptimisticDeletionAgreesWithTheFeed ==
  calc.fn = "deleteCategory" /\ calc.calls # << >> =>
    /\ view[Viewer].items = ViewerAfterDeletion.items
    /\ view[Viewer].categories = ViewerAfterDeletion.categories

\* the payload arrived first and the response after it, at a client that had
\* an item in the deleted category: the item is of 'Altro' and the category
\* is gone
C40_Witness ==
  /\ calc.fn = "deleteCategory" /\ Len(calc.calls) = 2
  /\ calc.calls[1].callback = "onCategoryDelete"
  /\ calc.calls[2].callback = "handleCategoryDeleted"
  /\ \E n \in 1..Len(calc.first.items) :
       /\ calc.first.items[n].category = calc.payload.old.name
       /\ calc.first.items[n].category # Altro
       /\ view[Viewer].items[n].category = Altro
  /\ NoRowOfId(view[Viewer].categories, calc.payload.old.id)

====
